---- MODULE Spec2Model ----
(***************************************************************************)
(* Model of the sched_update_nr_running trace tools:                       *)
(*   check-nr-running.py    interval reconstruction, utilization, findings *)
(*   compare-nr-running.py  process_report (header, rows, imbalances)      *)
(*   plot-nr-running.py     process_report (header, rows, imbalances)      *)
(*                                                                         *)
(* Timestamps are the floats of the trace counted in whole ticks; a Python *)
(* dict is a function whose DOMAIN is the set of keys present; a run       *)
(* interval (start, None) is the one-element tuple <<start>> and a closed  *)
(* interval (start, end) is <<start, end>>.                                *)
(***************************************************************************)
EXTENDS Integers, Sequences, FiniteSets, TLC

\* Bounds of the explored inputs.
MaxCpu == 1
MaxTime == 2
MaxNr == 2
MaxEvents == 3
MaxRowEvents == 2
MaxSampling == 2
MaxDuration == 1

CpuIds == 0..MaxCpu
Times == 0..MaxTime
NrValues == 0..MaxNr
Changes == (0 - MaxNr)..MaxNr
Samplings == 1..MaxSampling
Thresholds == 1..MaxNr
Durations == 0..MaxDuration
ToolNames == {"check", "compare", "plot"}

VARIABLES
  tool,               \* which script runs
  pc,                 \* position in the script
  header,             \* the first line of the input as read by readline(),
                      \* until the loop reads its first line
  cpus_count,
  exit_code,
  warnings,           \* the WARNING kinds printed while handling the latest line
  cpu,                \* the groups of the latest line the event pattern matched
  change,
  nr_running,
  point_time,
  start_time,
  events_count,       \* check-nr-running.py's counter; elsewhere the number
                      \* of lines accepted so far, which bounds the trace
  stop_time,
  cpu_state,
  cpu_run_intervals,
  cpu_nr_running,
  inconsistent_events,
  cpu_util,
  me_summary,         \* the missed-events summary of the final report
  alt_cpu_state,      \* a second reconstruction of the same (time, cpu,
  alt_cpu_run_intervals,  \* nr_running) trace under other change values
  sampling,           \* --sampling, --threshold, --duration
  threshold,
  duration,
  last_row,
  map_values,
  time_axis,
  differences,
  sums,
  imbalances,
  last_imbalance_start,
  counter,
  lscpu_file,         \* the lines of --lscpu-file read_nodes has not read yet
  numa_cpus,
  numa_util,
  input_index,        \* compare-nr-running.py: input_file0 or input_file1
  data_file,          \* the handle of lzma.open() on an input named *.xz:
                      \* "open" or "closed"; "plain" for any other input
  ps_file,            \* plot-ps.py: the lines of input_file, each as
                      \* line.split() gives it
  ps_pos,             \* how many of them the loop has read
  threads,
  first_record,
  time_offset,
  ps_row,             \* plot-ps.py: row
  idle_to_running,    \* per CPU, how many accepted events found old_state
                      \* Idle and current_state Running
  unsampled,          \* process_report on the same lines with --sampling 1:
                      \* its rows, times and imbalances
  trace               \* the lines the event pattern matched, in their order

ctlVars == <<tool, pc, header, cpus_count, exit_code, warnings>>
eventVars == <<cpu, change, nr_running, point_time, start_time>>
checkVars == <<events_count, stop_time, cpu_state, cpu_run_intervals,
               cpu_nr_running, inconsistent_events, cpu_util, me_summary>>
altVars == <<alt_cpu_state, alt_cpu_run_intervals, idle_to_running,
            unsampled, trace>>

argVars == <<sampling, threshold, duration>>
rowVars == <<last_row, map_values, time_axis, differences, sums, imbalances,
             last_imbalance_start, counter>>

psVars == <<ps_file, ps_pos, threads, first_record, time_offset, ps_row>>

mainVars == <<lscpu_file, numa_cpus, numa_util, input_index, data_file, psVars>>

vars == <<ctlVars, eventVars, checkVars, altVars, argVars, rowVars, mainVars>>

-----------------------------------------------------------------------------
\* Python helpers.

\* d[k] = v on a dict.
Put(d, k, v) == [x \in (DOMAIN d) \cup {k} |-> IF x = k THEN v ELSE d[x]]

\* The empty dict.
EmptyDict == [x \in {} |-> 0]

\* defaultdict(list)[k]
GetList(d, k) == IF k \in DOMAIN d THEN d[k] ELSE <<>>

\* defaultdict(lambda:0)[k]
GetCount(d, k) == IF k \in DOMAIN d THEN d[k] ELSE 0

\* lst[-1] = v
SetLast(lst, v) == [lst EXCEPT ![Len(lst)] = v]

RECURSIVE SumOver(_, _)
SumOver(d, keys) ==
  IF keys = {} THEN 0
  ELSE LET k == CHOOSE x \in keys : TRUE
       IN d[k] + SumOver(d, keys \ {k})

\* sum(d.values())
SumValues(d) == SumOver(d, DOMAIN d)

-----------------------------------------------------------------------------
\* Header line: a string is a tuple of characters.

Digits == {"0", "1", "2", "3"}

DigitVal(c) == CASE c = "0" -> 0 [] c = "1" -> 1 [] c = "2" -> 2 [] OTHER -> 3

RECURSIVE DecimalVal(_)
DecimalVal(s) ==
  IF s = <<>> THEN 0
  ELSE 10 * DecimalVal(SubSeq(s, 1, Len(s) - 1)) + DigitVal(s[Len(s)])

AllDigits(s) == Len(s) > 0 /\ \A i \in 1..Len(s) : s[i] \in Digits

\* '$' also matches just before a newline that ends the string.
ChompNewline(s) ==
  IF Len(s) > 0 /\ s[Len(s)] = "\n" THEN SubSeq(s, 1, Len(s) - 1) ELSE s

CpusPrefix == <<"c", "p", "u", "s", "=">>

\* re.compile(r"^cpus=(\d+)$").findall(line): <<>> or the one captured group.
HeaderFindall(line) ==
  LET body == ChompNewline(line)
      rest == SubSeq(body, Len(CpusPrefix) + 1, Len(body))
  IN IF Len(body) > Len(CpusPrefix)
        /\ SubSeq(body, 1, Len(CpusPrefix)) = CpusPrefix
        /\ AllDigits(rest)
     THEN <<rest>>
     ELSE <<>>

\* The first lines tried: well formed, and malformed in different ways
\* (the empty tuple is readline() at end of file).
HeaderLines ==
  { <<"c", "p", "u", "s", "=", "1", "\n">>,
    <<"c", "p", "u", "s", "=", "2", "\n">>,
    <<"c", "p", "u", "s", "=", "\n">>,
    <<"c", "p", "u", "s", "\n">>,
    <<"x", "=", "2", "\n">>,
    <<"c", "p", "u", "s", "=", "2", "=", "1", "\n">>,
    <<"c", "p", "u", "s", "=", " ", "2", "\n">>,
    <<"c", "p", "u", "s", "=", "x", "\n">>,
    <<>> }

-----------------------------------------------------------------------------
\* check-nr-running.py

\* Running taken for a queue of two or more only.
StateOfAboveOne(n) == IF n > 1 THEN "Running" ELSE "Idle"

StateOf(n) == IF n > 0 THEN "Running" ELSE "Idle"

\* The part of the loop's state one event reads and writes. line_count and
\* previous_line only feed the text of the warnings and are left out.
Engine ==
  [ events_count |-> events_count, start_time |-> start_time,
    point_time |-> point_time, cpu_state |-> cpu_state,
    cpu_run_intervals |-> cpu_run_intervals, cpu_nr_running |-> cpu_nr_running,
    inconsistent_events |-> inconsistent_events ]

\* The arithmetic check with the difference taken the other way round.
ArithmeticFlagSwapped(s, e) ==
  /\ e.cpu \in DOMAIN s.cpu_nr_running
  /\ s.cpu_nr_running[e.cpu] - e.nr_running # e.change

\* The arithmetic check of an event against the recorded queue length.
ArithmeticFlag(s, e) ==
  /\ e.cpu \in DOMAIN s.cpu_nr_running
  /\ e.nr_running - s.cpu_nr_running[e.cpu] # e.change

\* The state check run whatever the arithmetic check found.
StateFlagUnguarded(s, e) ==
  LET prev_nr_running == e.nr_running - e.change
  IN /\ e.cpu \in DOMAIN s.cpu_state
     /\ \/ s.cpu_state[e.cpu] = "Running" /\ prev_nr_running = 0
        \/ s.cpu_state[e.cpu] = "Idle" /\ prev_nr_running > 0

\* The check of the tracked state against the implied previous queue length.
StateFlag(s, e) ==
  LET prev_nr_running == e.nr_running - e.change
  IN /\ ~ArithmeticFlag(s, e)
     /\ e.cpu \in DOMAIN s.cpu_state
     /\ \/ s.cpu_state[e.cpu] = "Running" /\ prev_nr_running = 0
        \/ s.cpu_state[e.cpu] = "Idle" /\ prev_nr_running > 0

\* The WARNING kinds printed for an event.
EventWarnings(s, e) ==
  (IF e.nr_running - e.change < 0 THEN {"NegativePrior"} ELSE {})
  \cup (IF ArithmeticFlag(s, e) THEN {"Arithmetic"} ELSE {})
  \cup (IF StateFlag(s, e) THEN {"State"} ELSE {})

\* The bookkeeping of a known CPU with the old state taken from
\* nr_running - change, as the first event of a CPU takes it.
KnownTransitionFromChange(s, e) ==
  LET old_state == StateOf(e.nr_running - e.change)
      current_state == StateOf(e.nr_running)
      ivs == GetList(s.cpu_run_intervals, e.cpu)
  IN IF current_state = old_state THEN
       [cpu_state |-> Put(s.cpu_state, e.cpu, current_state),
        cpu_run_intervals |-> s.cpu_run_intervals]
     ELSE IF old_state = "Idle" \/ ivs = <<>> THEN
       [cpu_state |-> Put(s.cpu_state, e.cpu, current_state),
        cpu_run_intervals |->
          Put(s.cpu_run_intervals, e.cpu, Append(ivs, <<e.time>>))]
     ELSE
       [cpu_state |-> Put(s.cpu_state, e.cpu, current_state),
        cpu_run_intervals |->
          Put(s.cpu_run_intervals, e.cpu,
              SetLast(ivs, <<ivs[Len(ivs)][1], e.time>>))]

\* The bookkeeping of a known CPU that opens a new interval without
\* looking at the old state.
KnownTransitionAlwaysOpens(s, e) ==
  LET current_state == StateOf(e.nr_running)
      ivs == GetList(s.cpu_run_intervals, e.cpu)
  IN IF current_state = "Running" THEN
       [cpu_state |-> Put(s.cpu_state, e.cpu, current_state),
        cpu_run_intervals |->
          Put(s.cpu_run_intervals, e.cpu, Append(ivs, <<e.time>>))]
     ELSE IF s.cpu_state[e.cpu] = "Idle" THEN
       [cpu_state |-> s.cpu_state, cpu_run_intervals |-> s.cpu_run_intervals]
     ELSE
       [cpu_state |-> Put(s.cpu_state, e.cpu, current_state),
        cpu_run_intervals |->
          Put(s.cpu_run_intervals, e.cpu,
              SetLast(ivs, <<ivs[Len(ivs)][1], e.time>>))]

\* The bookkeeping of a known CPU that, on going idle, writes the event's
\* time over the start of the last interval too.
KnownTransitionRestart(s, e) ==
  LET old_state == s.cpu_state[e.cpu]
      current_state == StateOf(e.nr_running)
      ivs == GetList(s.cpu_run_intervals, e.cpu)
  IN IF current_state = old_state THEN
       [cpu_state |-> s.cpu_state, cpu_run_intervals |-> s.cpu_run_intervals]
     ELSE IF old_state = "Idle" THEN
       [cpu_state |-> Put(s.cpu_state, e.cpu, current_state),
        cpu_run_intervals |->
          Put(s.cpu_run_intervals, e.cpu, Append(ivs, <<e.time>>))]
     ELSE
       [cpu_state |-> Put(s.cpu_state, e.cpu, current_state),
        cpu_run_intervals |->
          Put(s.cpu_run_intervals, e.cpu, SetLast(ivs, <<e.time, e.time>>))]

\* The bookkeeping of a known CPU that opens an interval on every event
\* with nr_running > 0.
KnownTransitionReopens(s, e) ==
  LET old_state == s.cpu_state[e.cpu]
      current_state == StateOf(e.nr_running)
      ivs == GetList(s.cpu_run_intervals, e.cpu)
  IN IF current_state = old_state /\ current_state = "Idle" THEN
       [cpu_state |-> s.cpu_state, cpu_run_intervals |-> s.cpu_run_intervals]
     ELSE IF current_state = "Running" THEN
       [cpu_state |-> Put(s.cpu_state, e.cpu, current_state),
        cpu_run_intervals |->
          Put(s.cpu_run_intervals, e.cpu,
              Append(IF old_state = "Running"
                     THEN SetLast(ivs, <<ivs[Len(ivs)][1], e.time>>) ELSE ivs,
                     <<e.time>>))]
     ELSE
       [cpu_state |-> Put(s.cpu_state, e.cpu, current_state),
        cpu_run_intervals |->
          Put(s.cpu_run_intervals, e.cpu,
              SetLast(ivs, <<ivs[Len(ivs)][1], e.time>>))]

\* Interval bookkeeping of a CPU whose state is known.
KnownTransition(s, e) ==
  LET old_state == s.cpu_state[e.cpu]
      current_state == StateOf(e.nr_running)
      ivs == GetList(s.cpu_run_intervals, e.cpu)
  IN IF current_state = old_state THEN
       [cpu_state |-> s.cpu_state, cpu_run_intervals |-> s.cpu_run_intervals]
     ELSE IF old_state = "Idle" THEN
       [cpu_state |-> Put(s.cpu_state, e.cpu, current_state),
        cpu_run_intervals |->
          Put(s.cpu_run_intervals, e.cpu, Append(ivs, <<e.time>>))]
     ELSE
       [cpu_state |-> Put(s.cpu_state, e.cpu, current_state),
        cpu_run_intervals |->
          Put(s.cpu_run_intervals, e.cpu,
              SetLast(ivs, <<ivs[Len(ivs)][1], e.time>>))]

\* The first event of a CPU with nothing synthesized at start_time for an
\* implied Idle prior state.
FirstTransitionLiteral(s, e, st) ==
  LET prev_nr_running == e.nr_running - e.change
      current_state == StateOf(e.nr_running)
      old_state == StateOf(prev_nr_running)
      ivs == GetList(s.cpu_run_intervals, e.cpu)
      newIvs ==
        IF current_state = old_state THEN
          IF current_state = "Running" THEN Append(ivs, <<st>>) ELSE ivs
        ELSE IF current_state = "Running" THEN Append(ivs, <<e.time>>)
        ELSE Append(ivs, <<st, e.time>>)
  IN [cpu_state |-> Put(s.cpu_state, e.cpu, current_state),
      cpu_run_intervals |->
        IF current_state = old_state /\ current_state = "Idle"
        THEN s.cpu_run_intervals
        ELSE Put(s.cpu_run_intervals, e.cpu, newIvs)]

\* The first event of a CPU with the interval of an implied Running prior
\* state written end first.
FirstTransitionEndFirst(s, e, st) ==
  LET prev_nr_running == e.nr_running - e.change
      current_state == StateOf(e.nr_running)
      old_state == StateOf(prev_nr_running)
      ivs == GetList(s.cpu_run_intervals, e.cpu)
      newIvs ==
        IF current_state = old_state THEN
          IF current_state = "Running" THEN Append(ivs, <<st>>) ELSE ivs
        ELSE IF current_state = "Running" THEN
          Append(Append(ivs, <<st, st>>), <<e.time>>)
        ELSE Append(ivs, <<e.time, st>>)
  IN [cpu_state |-> Put(s.cpu_state, e.cpu, current_state),
      cpu_run_intervals |->
        IF current_state = old_state /\ current_state = "Idle"
        THEN s.cpu_run_intervals
        ELSE Put(s.cpu_run_intervals, e.cpu, newIvs)]

\* Interval bookkeeping on the first event of a CPU; st is start_time.
FirstTransition(s, e, st) ==
  LET prev_nr_running == e.nr_running - e.change
      current_state == StateOf(e.nr_running)
      old_state == StateOf(prev_nr_running)
      ivs == GetList(s.cpu_run_intervals, e.cpu)
      newIvs ==
        IF current_state = old_state THEN
          IF current_state = "Running" THEN Append(ivs, <<st>>) ELSE ivs
        ELSE IF current_state = "Running" THEN
          Append(Append(ivs, <<st, st>>), <<e.time>>)
        ELSE Append(ivs, <<st, e.time>>)
  IN [cpu_state |-> Put(s.cpu_state, e.cpu, current_state),
      cpu_run_intervals |->
        IF current_state = old_state /\ current_state = "Idle"
        THEN s.cpu_run_intervals
        ELSE Put(s.cpu_run_intervals, e.cpu, newIvs)]

\* The count with the negative-prior warning counted too.
FindingCountWithNegative(s, e) ==
  (IF e.nr_running - e.change < 0 THEN 1 ELSE 0)
  + (IF ArithmeticFlag(s, e) THEN 1 ELSE 0) + (IF StateFlag(s, e) THEN 1 ELSE 0)

\* How often 'inconsistent_events[cpu] += 1' runs for an event.
FindingCount(s, e) ==
  (IF ArithmeticFlag(s, e) THEN 1 ELSE 0) + (IF StateFlag(s, e) THEN 1 ELSE 0)

\* start_time taken from every event.
StartTimeLatest(s, e) == e.time

\* The first event of the trace sets start_time.
StartTime(s, e) == IF s.events_count + 1 = 1 THEN e.time ELSE s.start_time

\* cpu_state and cpu_run_intervals after the event.
Transition(s, e) ==
  IF e.cpu \in DOMAIN s.cpu_state
  THEN KnownTransition(s, e)
  ELSE FirstTransition(s, e, StartTime(s, e))

\* One pass of the loop body for a line the event pattern matches.
ProcessEvent(s, e) ==
  LET tr == Transition(s, e)
      n == FindingCount(s, e)
  IN [ events_count |-> s.events_count + 1,
       start_time |-> StartTime(s, e),
       point_time |-> e.time,
       cpu_state |-> tr.cpu_state,
       cpu_run_intervals |-> tr.cpu_run_intervals,
       cpu_nr_running |-> Put(s.cpu_nr_running, e.cpu, e.nr_running),
       inconsistent_events |->
         IF n > 0
         THEN Put(s.inconsistent_events, e.cpu,
                  GetCount(s.inconsistent_events, e.cpu) + n)
         ELSE s.inconsistent_events,
       warnings |-> EventWarnings(s, e) ]

\* Finalize without the zero-length interval of an idle CPU.
FinalizeIntervalsNoAnchor(states, intervals, stop) ==
  [c \in DOMAIN intervals |->
     IF c \in DOMAIN states /\ states[c] = "Running"
     THEN SetLast(intervals[c], <<intervals[c][Len(intervals[c])][1], stop>>)
     ELSE intervals[c]]

\* Finalize: close the open interval of a running CPU at stop, give an idle
\* CPU the zero-length interval (stop, stop).
FinalizeIntervals(states, intervals, stop) ==
  [c \in (DOMAIN intervals) \cup (DOMAIN states) |->
     IF c \in DOMAIN states
     THEN LET ivs == GetList(intervals, c)
          IN IF states[c] = "Running"
             THEN SetLast(ivs, <<ivs[Len(ivs)][1], stop>>)
             ELSE Append(ivs, <<stop, stop>>)
     ELSE intervals[c]]

\* 'if end:' taken as false for every interval that has no length.
TruthyStrict(iv) == Len(iv) = 2 /\ iv[2] > iv[1]

\* 'if end:' is false for None and for 0.0.
Truthy(iv) == Len(iv) = 2 /\ iv[2] # 0

LastIdleUnset == -1

\* One interval of the utilization walk; acc.undefined records the
\* 'end time of runtime interval is undefined' branch.
WalkStep(acc, iv) ==
  IF Truthy(iv)
  THEN [ running |-> acc.running + (iv[2] - iv[1]),
         idle |-> IF acc.last_idle_transition >= 0
                  THEN acc.idle + (iv[1] - acc.last_idle_transition)
                  ELSE acc.idle,
         last_idle_transition |-> iv[2],
         undefined |-> acc.undefined ]
  ELSE [acc EXCEPT !.undefined = TRUE]

RECURSIVE WalkFrom(_, _, _)
WalkFrom(ivs, i, acc) ==
  IF i > Len(ivs) THEN acc ELSE WalkFrom(ivs, i + 1, WalkStep(acc, ivs[i]))

Walk(ivs) ==
  WalkFrom(ivs, 1, [running |-> 0, idle |-> 0,
                    last_idle_transition |-> LastIdleUnset, undefined |-> FALSE])

\* idx of enumerate(sorted(cpu_run_intervals)).
Idx(intervals, c) == Cardinality({k \in DOMAIN intervals : k < c})

\* The undefined-end branch prints cpu_run_intervals[cpu][idx]: an IndexError
\* when the list has no element idx.
WalkRaises(intervals, c) ==
  Walk(intervals[c]).undefined /\ Idx(intervals, c) >= Len(intervals[c])

\* cpu_util after the walk over the CPUs in cpus.
UtilTable(intervals, cpus) ==
  [c \in cpus |-> <<Walk(intervals[c]).running, Walk(intervals[c]).idle>>]

\* A CPU of a node counted as busy for no time and idle for none.
IdleWholeTimeZero(stop, start) == <<0, 0>>

\* The entry the rollup gives a CPU that cpu_util has none for.
IdleWholeTime(stop, start) == <<0, stop - start>>

\* 'for cpu in numa_cpus[node]': acc.util is cpu_util, acc.total is
\* numa_util[node].
RECURSIVE RollupNode(_, _, _, _)
RollupNode(members, i, acc, default) ==
  IF i > Len(members) THEN acc
  ELSE LET c == members[i]
           util == IF c \in DOMAIN acc.util THEN acc.util
                   ELSE Put(acc.util, c, default)
       IN RollupNode(members, i + 1,
                     [ util |-> util,
                       total |-> <<acc.total[1] + util[c][1],
                                   acc.total[2] + util[c][2]>> ],
                     default)

\* 'for node in sorted(numa_cpus.keys())' over the nodes still to do.
RECURSIVE Rollup(_, _, _, _)
Rollup(topo, nodes, acc, default) ==
  IF nodes = {} THEN acc
  ELSE LET node == CHOOSE n \in nodes : \A m \in nodes : n <= m
           r == RollupNode(topo[node], 1,
                           [util |-> acc.util, total |-> <<0, 0>>], default)
       IN Rollup(topo, nodes \ {node},
                 [ util |-> r.util,
                   numa_util |-> Put(acc.numa_util, node, r.total) ],
                 default)

\* cpu_util and numa_util after 'if numa_cpus:'.
NumaUtil(topo, util, stop, start) ==
  IF DOMAIN topo = {} THEN [util |-> util, numa_util |-> EmptyDict]
  ELSE Rollup(topo, DOMAIN topo, [util |-> util, numa_util |-> EmptyDict],
              IdleWholeTime(stop, start))

\* The missed-events summary: empty when nothing was counted.
MissedEventsSummary(counts) ==
  IF DOMAIN counts = {} THEN EmptyDict
  ELSE [k \in {"total", "cpus"} |->
          IF k = "total" THEN SumValues(counts) ELSE Cardinality(DOMAIN counts)]

-----------------------------------------------------------------------------
\* check-nr-running.py: the script from its first line to its last.

\* The names of the script before any of them is assigned.
InitLocals ==
  /\ header = <<>>
  /\ cpus_count = 0
  /\ exit_code = 0
  /\ warnings = {}
  /\ cpu = 0
  /\ change = 0
  /\ nr_running = 0
  /\ point_time = 0
  /\ start_time = 0
  /\ events_count = 0
  /\ stop_time = 0
  /\ cpu_state = EmptyDict
  /\ cpu_run_intervals = EmptyDict
  /\ cpu_nr_running = EmptyDict
  /\ inconsistent_events = EmptyDict
  /\ cpu_util = EmptyDict
  /\ me_summary = EmptyDict
  /\ alt_cpu_state = EmptyDict
  /\ alt_cpu_run_intervals = EmptyDict
  /\ idle_to_running = EmptyDict
  /\ unsampled = <<>>
  /\ trace = <<>>
  /\ last_row = <<>>
  /\ map_values = <<>>
  /\ time_axis = <<>>
  /\ differences = <<>>
  /\ sums = <<>>
  /\ imbalances = <<>>
  /\ last_imbalance_start = 0
  /\ counter = 0
  /\ numa_util = EmptyDict
  /\ input_index = 0

InitCommon ==
  /\ pc = "header"
  /\ InitLocals

\* A run without --lscpu-file: numa_cpus = {}.
NoTopology ==
  /\ lscpu_file = <<>>
  /\ numa_cpus = EmptyDict

\* An input whose name does not end with .xz is read as it is.
PlainInput == data_file = "plain"

\* The scripts other than plot-ps.py have none of its names.
NoSnapshots ==
  /\ ps_file = <<>>
  /\ ps_pos = 0
  /\ threads = EmptyDict
  /\ first_record = TRUE
  /\ time_offset = 0
  /\ ps_row = <<>>

\* check-nr-running.py takes none of the three options.
Init ==
  /\ tool = "check"
  /\ sampling = 1 /\ threshold = 1 /\ duration = 0
  /\ NoTopology
  /\ PlainInput
  /\ NoSnapshots
  /\ InitCommon

\* The first line: cpus=<N>, or the fatal error and exit status 1.
HeaderStep(h) ==
  /\ header' = h
  /\ IF HeaderFindall(h) # <<>>
     THEN /\ cpus_count' = DecimalVal(HeaderFindall(h)[1])
          /\ pc' = "loop"
          /\ exit_code' = exit_code
     ELSE /\ cpus_count' = cpus_count
          /\ pc' = "fatal"
          /\ exit_code' = 1

ReadHeader ==
  /\ tool = "check"
  /\ pc = "header"
  /\ \E h \in HeaderLines : HeaderStep(h)
  /\ UNCHANGED <<tool, mainVars, warnings, eventVars, checkVars, altVars, argVars,
                 rowVars>>

\* The events a trace can hold next: timestamps do not decrease.
NextEvents ==
  [ time : {t \in Times : events_count = 0 \/ t >= point_time},
    cpu : CpuIds, change : Changes, nr_running : NrValues ]

\* A line the event pattern matches.
EventStep(e) ==
  LET n == ProcessEvent(Engine, e)
  IN /\ events_count' = n.events_count
     /\ start_time' = n.start_time
     /\ point_time' = n.point_time
     /\ cpu_state' = n.cpu_state
     /\ cpu_run_intervals' = n.cpu_run_intervals
     /\ cpu_nr_running' = n.cpu_nr_running
     /\ inconsistent_events' = n.inconsistent_events
     /\ warnings' = n.warnings
     /\ cpu' = e.cpu
     /\ change' = e.change
     /\ nr_running' = e.nr_running
     /\ header' = <<>>
     /\ UNCHANGED <<tool, mainVars, pc, cpus_count, exit_code, stop_time, cpu_util,
                    me_summary, argVars, rowVars>>

EventLine ==
  /\ tool = "check"
  /\ pc = "loop"
  /\ events_count < MaxEvents
  /\ \E e \in NextEvents : EventStep(e)
  /\ UNCHANGED altVars

\* A line the event pattern does not match that is counted for CPU 0 when
\* it holds the marker.
OtherLineCounting ==
  /\ tool = "check"
  /\ pc = "loop"
  /\ \E marker \in BOOLEAN :
       /\ warnings' = IF marker THEN {"Malformed"} ELSE {}
       /\ inconsistent_events' =
            IF marker
            THEN Put(inconsistent_events, 0, GetCount(inconsistent_events, 0) + 1)
            ELSE inconsistent_events
  /\ header' = <<>>
  /\ UNCHANGED <<tool, mainVars, pc, cpus_count, exit_code, eventVars, events_count,
                 stop_time, cpu_state, cpu_run_intervals, cpu_nr_running,
                 cpu_util, me_summary, altVars, argVars, rowVars>>

\* A line the event pattern does not match: a warning when it holds the
\* 'sched_update_nr_running:' marker, nothing otherwise.
OtherLine ==
  /\ tool = "check"
  /\ pc = "loop"
  /\ \E marker \in BOOLEAN :
       warnings' = IF marker THEN {"Malformed"} ELSE {}
  /\ header' = <<>>
  /\ UNCHANGED <<tool, mainVars, pc, cpus_count, exit_code, eventVars, checkVars, altVars,
                 argVars, rowVars>>

\* End of input: stop_time = point_time (a NameError when no line matched),
\* then every CPU's list is finalized.
FinalizeStep ==
  /\ IF events_count = 0
     THEN /\ pc' = "crash"
          /\ exit_code' = 1
          /\ UNCHANGED <<stop_time, cpu_run_intervals>>
     ELSE /\ pc' = "finalized"
          /\ stop_time' = point_time
          /\ cpu_run_intervals' =
               FinalizeIntervals(cpu_state, cpu_run_intervals, point_time)
          /\ exit_code' = exit_code
  /\ UNCHANGED <<tool, mainVars, header, cpus_count, warnings, eventVars, events_count,
                 cpu_state, cpu_nr_running, inconsistent_events, cpu_util,
                 me_summary, argVars, rowVars>>

Finalize ==
  /\ tool = "check"
  /\ pc = "loop"
  /\ FinalizeStep
  /\ UNCHANGED altVars

\* The utilization walk, the NUMA rollup and the final tables.
Report ==
  /\ tool = "check"
  /\ pc = "finalized"
  /\ LET keys == DOMAIN cpu_run_intervals
         raising == {c \in keys : WalkRaises(cpu_run_intervals, c)}
     IN IF raising # {}
        THEN LET first == CHOOSE c \in raising : \A d \in raising : c <= d
             IN /\ cpu_util' = UtilTable(cpu_run_intervals, {k \in keys : k < first})
                /\ pc' = "crash"
                /\ exit_code' = 1
                /\ me_summary' = me_summary
                /\ numa_util' = numa_util
        ELSE /\ LET r == NumaUtil(numa_cpus, UtilTable(cpu_run_intervals, keys),
                               stop_time, start_time)
                IN cpu_util' = r.util /\ numa_util' = r.numa_util
             /\ me_summary' = MissedEventsSummary(inconsistent_events)
             /\ pc' = "done"
             /\ exit_code' = exit_code
  /\ UNCHANGED <<tool, lscpu_file, numa_cpus, input_index, data_file, psVars,
                 header,
                 cpus_count, warnings, eventVars, events_count, stop_time, cpu_state,
                 cpu_run_intervals, cpu_nr_running, inconsistent_events, altVars,
                 argVars, rowVars>>

Next == ReadHeader \/ EventLine \/ OtherLine \/ Finalize \/ Report

Spec == Init /\ [][Next]_vars

-----------------------------------------------------------------------------
\* The loop with the Idle -> Running events of every CPU counted.

\* old_state of the state bookkeeping: the tracked state of a known CPU, the
\* state nr_running - change implies on a CPU's first event.
OldState(s, e) ==
  IF e.cpu \in DOMAIN s.cpu_state THEN s.cpu_state[e.cpu]
  ELSE StateOf(e.nr_running - e.change)

\* The event finds old_state Idle and current_state Running.
IdleToRunning(s, e) ==
  OldState(s, e) = "Idle" /\ StateOf(e.nr_running) = "Running"

CountedEventLine ==
  /\ tool = "check"
  /\ pc = "loop"
  /\ events_count < MaxEvents
  /\ \E e \in NextEvents :
       /\ EventStep(e)
       /\ idle_to_running' =
            IF IdleToRunning(Engine, e)
            THEN Put(idle_to_running, e.cpu, GetCount(idle_to_running, e.cpu) + 1)
            ELSE idle_to_running
  /\ UNCHANGED <<alt_cpu_state, alt_cpu_run_intervals, unsampled, trace>>

NextCounted ==
  ReadHeader \/ CountedEventLine \/ OtherLine \/ Finalize \/ Report

SpecCounted == Init /\ [][NextCounted]_vars

-----------------------------------------------------------------------------
\* Two reconstructions side by side: the second reads the same timestamps,
\* CPUs and nr_running values; on an event of a CPU whose state it knows its
\* change value is any value, on a CPU's first event it is the same value.

AltEngine ==
  [Engine EXCEPT !.cpu_state = alt_cpu_state,
                 !.cpu_run_intervals = alt_cpu_run_intervals]

PairEventLine ==
  /\ tool = "check"
  /\ pc = "loop"
  /\ events_count < MaxEvents
  /\ \E e \in NextEvents :
       /\ EventStep(e)
       /\ \E c2 \in Changes :
            /\ e.cpu \notin DOMAIN alt_cpu_state => c2 = e.change
            /\ LET e2 == [e EXCEPT !.change = c2]
               IN /\ alt_cpu_state' = Transition(AltEngine, e2).cpu_state
                  /\ alt_cpu_run_intervals' =
                       Transition(AltEngine, e2).cpu_run_intervals
  /\ idle_to_running' = idle_to_running
  /\ unsampled' = unsampled
  /\ trace' = trace

PairFinalize ==
  /\ tool = "check"
  /\ pc = "loop"
  /\ FinalizeStep
  /\ alt_cpu_state' = alt_cpu_state
  /\ alt_cpu_run_intervals' =
       IF events_count = 0 THEN alt_cpu_run_intervals
       ELSE FinalizeIntervals(alt_cpu_state, alt_cpu_run_intervals, point_time)
  /\ idle_to_running' = idle_to_running
  /\ unsampled' = unsampled
  /\ trace' = trace

NextPair == ReadHeader \/ PairEventLine \/ OtherLine \/ PairFinalize

SpecPair == Init /\ [][NextPair]_vars

-----------------------------------------------------------------------------
\* Python strings and arrays used by the other two scripts.

Whitespace == {" ", "\n"}

RECURSIVE Strip(_)
Strip(s) ==
  IF s # <<>> /\ s[1] \in Whitespace THEN Strip(Tail(s))
  ELSE IF s # <<>> /\ s[Len(s)] \in Whitespace
       THEN Strip(SubSeq(s, 1, Len(s) - 1))
       ELSE s

\* int(s): surrounding whitespace and one sign are accepted.
PyInt(s) ==
  LET t == Strip(s)
      signed == t # <<>> /\ t[1] \in {"-", "+"}
      digits == IF signed THEN Tail(t) ELSE t
  IN IF AllDigits(digits)
     THEN [ok |-> TRUE,
           val |-> IF signed /\ t[1] = "-" THEN 0 - DecimalVal(digits)
                   ELSE DecimalVal(digits)]
     ELSE [ok |-> FALSE, val |-> 0]

\* s.split('=')
RECURSIVE SplitEq(_)
SplitEq(s) ==
  IF \A i \in 1..Len(s) : s[i] # "="
  THEN <<s>>
  ELSE LET k == CHOOSE i \in 1..Len(s) :
                  s[i] = "=" /\ \A j \in 1..(i - 1) : s[j] # "="
       IN <<SubSeq(s, 1, k - 1)>> \o SplitEq(SubSeq(s, k + 1, Len(s)))

\* np.zeros(n), np.full(n, v): an array is a function on 0..n-1.
Full(n, v) == [i \in 0..(n - 1) |-> v]

RowMax(row) == CHOOSE m \in {row[i] : i \in DOMAIN row} :
                 \A i \in DOMAIN row : row[i] <= m

RowMin(row) == CHOOSE m \in {row[i] : i \in DOMAIN row} :
                 \A i \in DOMAIN row : m <= row[i]

RowSum(row) == SumOver(row, DOMAIN row)

\* The imbalance bookkeeping of one sample: the start of the open imbalance
\* (0 for none) and the imbalances reported so far.
TrackImbalance(start, found, diff, time, thr, dur) ==
  LET started == IF diff >= thr /\ start = 0 THEN time ELSE start
  IN IF diff < thr /\ started # 0
     THEN [ start |-> 0,
            found |-> IF time - started >= dur
                      THEN Append(found, <<started, time>>) ELSE found ]
     ELSE [start |-> started, found |-> found]

\* The imbalance still open at the end of the input.
CloseImbalance(start, found, time, dur) ==
  IF start # 0 /\ time - start >= dur
  THEN Append(found, <<start, time>>) ELSE found

-----------------------------------------------------------------------------
\* compare-nr-running.py: process_report.

UnsetStartTime == -1

CompareReadHeader ==
  /\ tool = "compare"
  /\ pc = "header"
  /\ \E h \in HeaderLines :
       /\ HeaderStep(h)
       /\ IF HeaderFindall(h) # <<>>
          THEN /\ last_row' = Full(DecimalVal(HeaderFindall(h)[1]), 0)
               /\ map_values' = <<Full(DecimalVal(HeaderFindall(h)[1]), 0)>>
               /\ start_time' = UnsetStartTime
          ELSE UNCHANGED <<last_row, map_values, start_time>>
  /\ UNCHANGED <<tool, mainVars, warnings, cpu, change, nr_running, point_time, checkVars,
                 altVars, argVars, time_axis, differences, sums, imbalances,
                 last_imbalance_start, counter>>

\* The events a trace can hold next: the raw timestamp, point_time +
\* start_time of the line before, does not decrease.
CompareNextEvents ==
  [ time : {t \in Times : t >= point_time + start_time},
    cpu : CpuIds, change : Changes, nr_running : NrValues ]

\* A line the event pattern matches. row[cpu] = nr_running is an IndexError
\* for a cpu the array has no slot for.
CompareEventStep(e) ==
  LET st == IF start_time < 0 THEN start_time + e.time ELSE start_time
      now == e.time - st
      row == [last_row EXCEPT ![e.cpu] = e.nr_running]
      diff == RowMax(row) - RowMin(row)
      imb == TrackImbalance(last_imbalance_start, imbalances, diff, now,
                            threshold, duration)
      stored == counter + 1 >= sampling
  IN /\ cpu' = e.cpu
     /\ change' = e.change
     /\ nr_running' = e.nr_running
     /\ start_time' = st
     /\ point_time' = now
     /\ events_count' = events_count + 1
     /\ IF e.cpu \notin DOMAIN last_row
        THEN /\ pc' = "crash"
             /\ exit_code' = 1
             /\ UNCHANGED rowVars
        ELSE /\ pc' = pc
             /\ exit_code' = exit_code
             /\ last_imbalance_start' = imb.start
             /\ imbalances' = imb.found
             /\ counter' = IF stored THEN 0 ELSE counter + 1
             /\ map_values' = IF stored THEN Append(map_values, row) ELSE map_values
             /\ differences' = IF stored THEN Append(differences, diff)
                               ELSE differences
             /\ sums' = IF stored THEN Append(sums, RowSum(row)) ELSE sums
             /\ time_axis' = IF stored THEN Append(time_axis, now) ELSE time_axis
             /\ last_row' = row
     /\ header' = <<>>
     /\ UNCHANGED <<tool, mainVars, cpus_count, warnings, stop_time, cpu_state,
                    cpu_run_intervals, cpu_nr_running, inconsistent_events,
                    cpu_util, me_summary, argVars>>

CompareEventLine ==
  /\ tool = "compare"
  /\ pc = "loop"
  /\ events_count < MaxRowEvents
  /\ \E e \in CompareNextEvents : CompareEventStep(e)
  /\ UNCHANGED altVars

CompareOtherLine ==
  /\ tool = "compare"
  /\ pc = "loop"
  /\ \E marker \in BOOLEAN :
       warnings' = IF marker THEN {"Malformed"} ELSE {}
  /\ header' = <<>>
  /\ UNCHANGED <<tool, mainVars, pc, cpus_count, exit_code, eventVars, checkVars, altVars,
                 argVars, rowVars>>

\* End of input: the imbalance lasting to the end, then the return.
CompareReturn ==
  /\ tool = "compare"
  /\ pc = "loop"
  /\ imbalances' = CloseImbalance(last_imbalance_start, imbalances, point_time,
                                  duration)
  /\ pc' = "done"
  /\ UNCHANGED <<tool, mainVars, header, cpus_count, exit_code, warnings, eventVars,
                 checkVars, altVars, argVars, last_row, map_values, time_axis,
                 differences, sums, last_imbalance_start, counter>>

NextCompare ==
  CompareReadHeader \/ CompareEventLine \/ CompareOtherLine \/ CompareReturn

\* The second call with counter and imbalances kept, as names of the module
\* would be.
CompareSecondCallShared ==
  /\ tool = "compare"
  /\ pc = "done"
  /\ input_index = 0
  /\ input_index' = 1
  /\ pc' = "header"
  /\ header' = <<>>
  /\ cpus_count' = 0
  /\ cpu' = 0 /\ change' = 0 /\ nr_running' = 0
  /\ point_time' = 0 /\ start_time' = 0
  /\ events_count' = 0
  /\ last_row' = <<>> /\ map_values' = <<>> /\ time_axis' = <<>>
  /\ differences' = <<>> /\ sums' = <<>>
  /\ last_imbalance_start' = 0
  /\ UNCHANGED <<tool, exit_code, warnings, stop_time, cpu_state,
                 cpu_run_intervals, cpu_nr_running, inconsistent_events,
                 cpu_util, me_summary, altVars, argVars, lscpu_file, numa_cpus,
                 numa_util, data_file, psVars, imbalances, counter>>

\* __main__: process_report has returned for input_file0 and is called for
\* input_file1 with the same options. The names of the call that returned
\* are gone; the new call binds its lists and counter anew and has every
\* other name unassigned, as at the start of the first call. What the first
\* call returned stays with __main__ and is not read by the second.
CompareSecondCall ==
  /\ tool = "compare"
  /\ pc = "done"
  /\ input_index = 0
  /\ input_index' = 1
  /\ pc' = "header"
  /\ header' = <<>>
  /\ cpus_count' = 0
  /\ cpu' = 0 /\ change' = 0 /\ nr_running' = 0
  /\ point_time' = 0 /\ start_time' = 0
  /\ events_count' = 0
  /\ last_row' = <<>> /\ map_values' = <<>> /\ time_axis' = <<>>
  /\ differences' = <<>> /\ sums' = <<>> /\ imbalances' = <<>>
  /\ last_imbalance_start' = 0 /\ counter' = 0
  /\ UNCHANGED <<tool, exit_code, warnings, stop_time, cpu_state,
                 cpu_run_intervals, cpu_nr_running, inconsistent_events,
                 cpu_util, me_summary, altVars, argVars, lscpu_file, numa_cpus,
                 numa_util, data_file, psVars>>

InitTwice ==
  /\ tool = "compare"
  /\ sampling \in Samplings
  /\ threshold \in Thresholds
  /\ duration \in Durations
  /\ NoTopology
  /\ PlainInput
  /\ NoSnapshots
  /\ InitCommon

NextTwice == NextCompare \/ CompareSecondCall

SpecTwice == InitTwice /\ [][NextTwice]_vars

-----------------------------------------------------------------------------
\* plot-nr-running.py: process_report.

NoData == -1

\* int(input_file.readline().split('=')[1]) and np.full(cpus_count, -1):
\* an IndexError, a ValueError, or the array.
PlotHeader(line) ==
  LET parts == SplitEq(line)
  IN IF Len(parts) < 2 THEN [ok |-> FALSE, val |-> 0]
     ELSE IF PyInt(parts[2]).ok /\ PyInt(parts[2]).val < 0
          THEN [ok |-> FALSE, val |-> PyInt(parts[2]).val]
          ELSE PyInt(parts[2])

PlotReadHeader ==
  /\ tool = "plot"
  /\ pc = "header"
  /\ \E h \in HeaderLines :
       /\ header' = h
       /\ IF PlotHeader(h).ok
          THEN /\ cpus_count' = PlotHeader(h).val
               /\ last_row' = Full(PlotHeader(h).val, NoData)
               /\ map_values' = <<Full(PlotHeader(h).val, NoData)>>
               /\ pc' = "loop"
               /\ exit_code' = exit_code
          ELSE /\ cpus_count' = PlotHeader(h).val
               /\ pc' = "crash"
               /\ exit_code' = 1
               /\ UNCHANGED <<last_row, map_values>>
  /\ UNCHANGED <<tool, mainVars, warnings, eventVars, checkVars, altVars, argVars,
                 time_axis, differences, sums, imbalances, last_imbalance_start,
                 counter>>

PlotNextEvents ==
  [ time : {t \in Times : t >= point_time},
    cpu : CpuIds, change : Changes, nr_running : NrValues ]

\* The loop body without the write into the rows stored before a CPU's
\* first data.
PlotEventStepNoBackfill(e) ==
  LET row == [last_row EXCEPT ![e.cpu] = e.nr_running]
      stored == counter + 1 >= sampling
  IN /\ cpu' = e.cpu
     /\ change' = e.change
     /\ nr_running' = e.nr_running
     /\ point_time' = e.time
     /\ events_count' = events_count + 1
     /\ IF e.cpu \notin DOMAIN last_row
        THEN /\ pc' = "crash"
             /\ exit_code' = 1
             /\ UNCHANGED <<last_row, map_values, time_axis, counter>>
        ELSE /\ pc' = pc
             /\ exit_code' = exit_code
             /\ counter' = IF stored THEN 0 ELSE counter + 1
             /\ map_values' = IF stored THEN Append(map_values, row)
                              ELSE map_values
             /\ time_axis' = IF stored THEN Append(time_axis, e.time)
                             ELSE time_axis
             /\ last_row' = row
     /\ header' = <<>>
     /\ UNCHANGED <<tool, mainVars, cpus_count, warnings, start_time, stop_time,
                    cpu_state, cpu_run_intervals, cpu_nr_running,
                    inconsistent_events, cpu_util, me_summary, argVars,
                    differences, sums, imbalances, last_imbalance_start>>

\* A line the event pattern matches. last_row[cpu] is an IndexError for a
\* cpu the array has no slot for; the first data of a CPU is written back
\* into every stored row.
PlotEventStep(e) ==
  LET filled == IF e.cpu \in DOMAIN last_row /\ last_row[e.cpu] = NoData
                THEN [i \in DOMAIN map_values |->
                        [map_values[i] EXCEPT ![e.cpu] = e.nr_running - e.change]]
                ELSE map_values
      row == [last_row EXCEPT ![e.cpu] = e.nr_running]
      stored == counter + 1 >= sampling
  IN /\ cpu' = e.cpu
     /\ change' = e.change
     /\ nr_running' = e.nr_running
     /\ point_time' = e.time
     /\ events_count' = events_count + 1
     /\ IF e.cpu \notin DOMAIN last_row
        THEN /\ pc' = "crash"
             /\ exit_code' = 1
             /\ UNCHANGED <<last_row, map_values, time_axis, counter>>
        ELSE /\ pc' = pc
             /\ exit_code' = exit_code
             /\ counter' = IF stored THEN 0 ELSE counter + 1
             /\ map_values' = IF stored THEN Append(filled, row) ELSE filled
             /\ time_axis' = IF stored THEN Append(time_axis, e.time)
                             ELSE time_axis
             /\ last_row' = row
     /\ header' = <<>>
     /\ UNCHANGED <<tool, mainVars, cpus_count, warnings, start_time, stop_time,
                    cpu_state, cpu_run_intervals, cpu_nr_running,
                    inconsistent_events, cpu_util, me_summary, argVars,
                    differences, sums, imbalances, last_imbalance_start>>

PlotEventLine ==
  /\ tool = "plot"
  /\ pc = "loop"
  /\ events_count < MaxRowEvents
  /\ \E e \in PlotNextEvents : PlotEventStep(e)
  /\ UNCHANGED altVars

PlotOtherLine ==
  /\ tool = "plot"
  /\ pc = "loop"
  /\ \E marker \in BOOLEAN :
       warnings' = IF marker THEN {"Malformed"} ELSE {}
  /\ header' = <<>>
  /\ UNCHANGED <<tool, mainVars, pc, cpus_count, exit_code, eventVars, checkVars, altVars,
                 argVars, rowVars>>

\* The second run over the stored rows: row i of map_values with time i.
RECURSIVE SecondRun(_, _, _, _, _, _)
SecondRun(i, rows, times, thr, dur, acc) ==
  IF i > Len(times) THEN acc
  ELSE LET diff == RowMax(rows[i]) - RowMin(rows[i])
           imb == TrackImbalance(acc.start, acc.found, diff, times[i], thr, dur)
       IN SecondRun(i + 1, rows, times, thr, dur,
                    [ start |-> imb.start, found |-> imb.found,
                      differences |-> Append(acc.differences, diff),
                      sums |-> Append(acc.sums, RowSum(rows[i])) ])

\* End of input: exit(0) without a stored row, else the second run, the
\* imbalance lasting to the end, the plot and the return.
PlotReturn ==
  /\ tool = "plot"
  /\ pc = "loop"
  /\ IF Len(time_axis) = 0
     THEN /\ pc' = "exit"
          /\ UNCHANGED <<differences, sums, imbalances, last_imbalance_start>>
     ELSE LET r == SecondRun(1, map_values, time_axis, threshold, duration,
                             [ start |-> 0, found |-> <<>>,
                               differences |-> <<>>, sums |-> <<>> ])
          IN /\ pc' = "done"
             /\ differences' = r.differences
             /\ sums' = r.sums
             /\ last_imbalance_start' = r.start
             /\ imbalances' = CloseImbalance(r.start, r.found,
                                             time_axis[Len(time_axis)], duration)
  /\ UNCHANGED <<tool, mainVars, header, cpus_count, exit_code, warnings, eventVars,
                 checkVars, altVars, argVars, last_row, map_values, time_axis,
                 counter>>

NextPlot == PlotReadHeader \/ PlotEventLine \/ PlotOtherLine \/ PlotReturn

\* plot-nr-running.py with --sampling above 1, on traces long enough for an
\* event behind the last stored row.
MaxSampledEvents == 3

SampledEventLine ==
  /\ tool = "plot"
  /\ pc = "loop"
  /\ events_count < MaxSampledEvents
  /\ \E e \in PlotNextEvents : PlotEventStep(e)
  /\ UNCHANGED altVars

InitSampled ==
  /\ tool = "plot"
  /\ sampling = MaxSampling
  /\ threshold \in Thresholds
  /\ duration \in Durations
  /\ NoTopology
  /\ PlainInput
  /\ NoSnapshots
  /\ InitCommon

NextSampled ==
  PlotReadHeader \/ SampledEventLine \/ PlotOtherLine \/ PlotReturn

SpecSampled == InitSampled /\ [][NextSampled]_vars

\* plot-nr-running.py with the matched lines kept, to tell what its rows
\* hold from what it has read.
TracedEventLine ==
  /\ tool = "plot"
  /\ pc = "loop"
  /\ events_count < MaxRowEvents
  /\ \E e \in PlotNextEvents :
       /\ PlotEventStep(e)
       /\ trace' = Append(trace, e)
  /\ UNCHANGED <<alt_cpu_state, alt_cpu_run_intervals, idle_to_running,
                 unsampled>>

InitTraced ==
  /\ tool = "plot"
  /\ sampling \in Samplings
  /\ threshold = 1 /\ duration = 0
  /\ NoTopology
  /\ PlainInput
  /\ NoSnapshots
  /\ InitCommon

NextTraced ==
  PlotReadHeader \/ TracedEventLine \/ PlotOtherLine \/ PlotReturn

SpecTraced == InitTraced /\ [][NextTraced]_vars

-----------------------------------------------------------------------------
\* process_report of either script side by side with the same call under
\* --sampling 1, which stores the row and the time of every event.

\* Before the first event the two calls hold the same row and nothing else.
Unsampled ==
  IF unsampled = <<>>
  THEN [ map_values |-> map_values, time_axis |-> <<>>, imbalances |-> <<>>,
         last_imbalance_start |-> 0 ]
  ELSE unsampled

\* compare-nr-running.py: the loop body with counter >= 1 at every event.
CompareUnsampledStep(u, e) ==
  LET st == IF start_time < 0 THEN start_time + e.time ELSE start_time
      now == e.time - st
      row == [last_row EXCEPT ![e.cpu] = e.nr_running]
      diff == RowMax(row) - RowMin(row)
      imb == TrackImbalance(u.last_imbalance_start, u.imbalances, diff, now,
                            threshold, duration)
  IN [ map_values |-> Append(u.map_values, row),
       time_axis |-> Append(u.time_axis, now),
       imbalances |-> imb.found,
       last_imbalance_start |-> imb.start ]

\* plot-nr-running.py: the loop body with counter >= 1 at every event.
PlotUnsampledStep(u, e) ==
  LET filled == IF last_row[e.cpu] = NoData
                THEN [i \in DOMAIN u.map_values |->
                        [u.map_values[i] EXCEPT ![e.cpu] = e.nr_running - e.change]]
                ELSE u.map_values
      row == [last_row EXCEPT ![e.cpu] = e.nr_running]
  IN [ map_values |-> Append(filled, row),
       time_axis |-> Append(u.time_axis, e.time),
       imbalances |-> <<>>,
       last_imbalance_start |-> 0 ]

CompareSamplingPairLine ==
  /\ tool = "compare"
  /\ pc = "loop"
  /\ events_count < MaxRowEvents
  /\ \E e \in CompareNextEvents :
       /\ CompareEventStep(e)
       /\ unsampled' = IF e.cpu \in DOMAIN last_row
                       THEN CompareUnsampledStep(Unsampled, e) ELSE unsampled
  /\ UNCHANGED <<alt_cpu_state, alt_cpu_run_intervals, idle_to_running, trace>>

PlotSamplingPairLine ==
  /\ tool = "plot"
  /\ pc = "loop"
  /\ events_count < MaxRowEvents
  /\ \E e \in PlotNextEvents :
       /\ PlotEventStep(e)
       /\ unsampled' = IF e.cpu \in DOMAIN last_row
                       THEN PlotUnsampledStep(Unsampled, e) ELSE unsampled
  /\ UNCHANGED <<alt_cpu_state, alt_cpu_run_intervals, idle_to_running, trace>>

\* The imbalances the call under --sampling 1 returns at the end of the
\* input.
UnsampledImbalances ==
  IF tool = "compare"
  THEN CloseImbalance(Unsampled.last_imbalance_start, Unsampled.imbalances,
                      point_time, duration)
  ELSE LET u == Unsampled
           r == SecondRun(1, u.map_values, u.time_axis, threshold, duration,
                          [ start |-> 0, found |-> <<>>,
                            differences |-> <<>>, sums |-> <<>> ])
       IN CloseImbalance(r.start, r.found, u.time_axis[Len(u.time_axis)],
                         duration)

InitSamplingPair ==
  /\ tool \in {"compare", "plot"}
  /\ sampling \in Samplings
  /\ threshold \in Thresholds
  /\ duration \in Durations
  /\ NoTopology
  /\ PlainInput
  /\ NoSnapshots
  /\ InitCommon

NextSamplingPair ==
  \/ CompareReadHeader \/ CompareSamplingPairLine \/ CompareOtherLine
  \/ CompareReturn
  \/ PlotReadHeader \/ PlotSamplingPairLine \/ PlotOtherLine \/ PlotReturn

SpecSamplingPair == InitSamplingPair /\ [][NextSamplingPair]_vars

-----------------------------------------------------------------------------
\* read_nodes: the NUMA nodes of an lscpu output.

MaxLscpuLines == 2
MaxNodeCpu == 2
MaxNode == 1

\* s[n:] and s[:n]
Slice(s, n) == SubSeq(s, n + 1, Len(s))

Prefix(s, n) == SubSeq(s, 1, IF n < Len(s) THEN n ELSE Len(s))

HasChar(s, ch) == \E i \in 1..Len(s) : s[i] = ch

\* s.split(ch)
RECURSIVE SplitChar(_, _)
SplitChar(s, ch) ==
  IF ~HasChar(s, ch)
  THEN <<s>>
  ELSE LET k == CHOOSE i \in 1..Len(s) :
                  s[i] = ch /\ \A j \in 1..(i - 1) : s[j] # ch
       IN <<SubSeq(s, 1, k - 1)>> \o SplitChar(SubSeq(s, k + 1, Len(s)), ch)

\* s.split(): the words between runs of whitespace.
RECURSIVE SplitWs(_)
SplitWs(s) ==
  LET t == Strip(s)
  IN IF t = <<>> THEN <<>>
     ELSE IF \A i \in 1..Len(t) : t[i] \notin Whitespace THEN <<t>>
     ELSE LET k == CHOOSE i \in 1..Len(t) :
                     t[i] \in Whitespace /\ \A j \in 1..(i - 1) : t[j] \notin Whitespace
          IN <<SubSeq(t, 1, k - 1)>> \o SplitWs(SubSeq(t, k, Len(t)))

CpusWord == <<"C", "P", "U", "(", "s", ")", ":">>

NumaWord == <<"N", "U", "M", "A">>

NodesWord == NumaWord \o <<" ", "n", "o", "d", "e", "(", "s", ")", ":">>

\* w occurs in s at position i.
At(s, i, w) == i + Len(w) - 1 <= Len(s) /\ SubSeq(s, i, i + Len(w) - 1) = w

\* re.compile(r'NUMA.*CPU\(s\):').search(line)
NumaSearch(line) ==
  \E i \in 1..Len(line) :
    /\ At(line, i, NumaWord)
    /\ \E j \in (i + Len(NumaWord))..Len(line) :
         /\ At(line, j, CpusWord)
         /\ \A k \in i..(j - 1) : line[k] # "\n"

\* range(lo, hi) as a list.
PyRange(lo, hi) == [i \in 1..(hi - lo) |-> lo + i - 1]

\* The CPUs of the span with the last one left out.
CpuRangeHalfOpen(lo, hi) == PyRange(lo, hi)

\* range(int(w[0]), int(w[1]) + 1)
CpuRange(lo, hi) == PyRange(lo, hi + 1)

\* int(words[1][4:])
NodeOf(words) ==
  IF Len(words) >= 2 THEN PyInt(Slice(words[2], 4)) ELSE [ok |-> FALSE, val |-> 0]

\* numa_cpus.setdefault(node, []).append(c) for every c of cs.
AppendCpus(numa, node, cs) ==
  IF cs = <<>> THEN numa ELSE Put(numa, node, GetList(numa, node) \o cs)

\* One element of words[-1].split(','); acc.ok is false once an int() or an
\* index has raised.
ItemStep(acc, words, item) ==
  LET raised == [ok |-> FALSE, numa |-> acc.numa]
  IN IF ~acc.ok THEN acc
     ELSE IF HasChar(item, "-") THEN
       LET w == SplitChar(item, "-")
           lo == PyInt(w[1])
           hi == PyInt(w[2])
       IN IF ~lo.ok \/ ~hi.ok THEN raised
          ELSE IF CpuRange(lo.val, hi.val) = <<>> THEN acc
          ELSE IF ~NodeOf(words).ok THEN raised
          ELSE [ok |-> TRUE,
                numa |-> AppendCpus(acc.numa, NodeOf(words).val,
                                    CpuRange(lo.val, hi.val))]
     ELSE IF ~NodeOf(words).ok \/ ~PyInt(item).ok THEN raised
          ELSE [ok |-> TRUE,
                numa |-> AppendCpus(acc.numa, NodeOf(words).val,
                                    <<PyInt(item).val>>)]

RECURSIVE ItemsFrom(_, _, _, _)
ItemsFrom(items, i, words, acc) ==
  IF i > Len(items) THEN acc
  ELSE ItemsFrom(items, i + 1, words, ItemStep(acc, words, items[i]))

\* The body of 'for line in lscpu_file'.
NodesLine(numa, line) ==
  IF Prefix(line, 7) = CpusWord
  THEN [ok |-> PyInt(Slice(line, 7)).ok, numa |-> numa]
  ELSE IF Prefix(line, 13) = NodesWord
  THEN [ok |-> PyInt(Slice(line, 13)).ok, numa |-> numa]
  ELSE IF NumaSearch(line)
  THEN LET words == SplitWs(line)
       IN ItemsFrom(SplitChar(words[Len(words)], ","), 1, words,
                    [ok |-> TRUE, numa |-> numa])
  ELSE [ok |-> TRUE, numa |-> numa]

\* The same loop body in plot-mpstat.py, which tells the node lines by
\* line[:9] == 'NUMA node'.
NodesLineByPrefix(numa, line) ==
  IF Prefix(line, 7) = CpusWord
  THEN [ok |-> PyInt(Slice(line, 7)).ok, numa |-> numa]
  ELSE IF Prefix(line, 13) = NodesWord
  THEN [ok |-> PyInt(Slice(line, 13)).ok, numa |-> numa]
  ELSE IF Prefix(line, 9) = Prefix(NodesWord, 9)
  THEN LET words == SplitWs(line)
       IN ItemsFrom(SplitChar(words[Len(words)], ","), 1, words,
                    [ok |-> TRUE, numa |-> numa])
  ELSE [ok |-> TRUE, numa |-> numa]

RECURSIVE ReadNodesFrom(_, _, _)
ReadNodesFrom(file, i, acc) ==
  IF i > Len(file) \/ ~acc.ok THEN acc
  ELSE ReadNodesFrom(file, i + 1, NodesLine(acc.numa, file[i]))

\* read_nodes(lscpu_file)
ReadNodes(file) == ReadNodesFrom(file, 1, [ok |-> TRUE, numa |-> EmptyDict])

\* The lines of lscpu: a CPU list is a sequence of items, <<a>> for the
\* single CPU a and <<a, b>> for the span a-b.
DigitChar(n) == CASE n = 0 -> "0" [] n = 1 -> "1" [] n = 2 -> "2" [] OTHER -> "3"

FormatItem(it) ==
  IF Len(it) = 1 THEN <<DigitChar(it[1])>>
  ELSE <<DigitChar(it[1]), "-", DigitChar(it[2])>>

RECURSIVE FormatItems(_)
FormatItems(r) ==
  IF r = <<>> THEN <<>>
  ELSE IF Len(r) = 1 THEN FormatItem(r[1])
  ELSE FormatItem(r[1]) \o <<",">> \o FormatItems(Tail(r))

\* 'NUMA node<k> CPU(s):   <list>'
NodeLine(k, r) ==
  NumaWord \o <<" ", "n", "o", "d", "e", DigitChar(k), " ">> \o CpusWord
  \o <<" ", " ">> \o FormatItems(r) \o <<"\n">>

\* 'CPU(s):  2', 'NUMA node(s): 2' and 'On-line CPU(s) list: 0-1'
CountLine == CpusWord \o <<" ", " ", "2", "\n">>

NodesCountLine == NodesWord \o <<" ", "2", "\n">>

OnlineLine ==
  <<"O", "n", "-", "l", "i", "n", "e", " ", "C", "P", "U", "(", "s", ")", " ",
    "l", "i", "s", "t", ":", " ", "0", "-", "1", "\n">>

NodeIds == 0..MaxNode

CpuItems ==
  {<<a>> : a \in 0..MaxNodeCpu}
  \cup {<<a, b>> : a \in 0..MaxNodeCpu, b \in 1..MaxNodeCpu}

CpuLists == {<<>>} \cup {<<x>> : x \in CpuItems} \cup (CpuItems \X CpuItems)

LscpuLines ==
  {NodeLine(k, r) : k \in NodeIds, r \in CpuLists}
  \cup {CountLine, NodesCountLine, OnlineLine}

LscpuFiles == UNION {[1..n -> LscpuLines] : n \in 0..MaxLscpuLines}

\* One line of the file.
ReadNodesLine ==
  /\ tool = "check"
  /\ pc = "lscpu"
  /\ lscpu_file # <<>>
  /\ LET r == NodesLine(numa_cpus, Head(lscpu_file))
     IN /\ numa_cpus' = r.numa
        /\ pc' = IF r.ok THEN pc ELSE "crash"
        /\ exit_code' = IF r.ok THEN exit_code ELSE 1
  /\ lscpu_file' = Tail(lscpu_file)
  /\ UNCHANGED <<tool, header, cpus_count, warnings, eventVars, checkVars,
                 altVars, argVars, rowVars, numa_util, input_index, data_file,
                 psVars>>

\* The end of the file: 'return numa_cpus', and the script goes on to the
\* first line of the trace.
ReadNodesReturn ==
  /\ tool = "check"
  /\ pc = "lscpu"
  /\ lscpu_file = <<>>
  /\ pc' = "header"
  /\ UNCHANGED <<tool, mainVars, header, cpus_count, exit_code, warnings,
                 eventVars, checkVars, altVars, argVars, rowVars>>

InitNodes ==
  /\ tool = "check"
  /\ sampling = 1 /\ threshold = 1 /\ duration = 0
  /\ pc = "lscpu"
  /\ lscpu_file \in LscpuFiles
  /\ numa_cpus = EmptyDict
  /\ PlainInput
  /\ NoSnapshots
  /\ InitLocals

NextNodes == ReadNodesLine \/ ReadNodesReturn

SpecNodes == InitNodes /\ [][NextNodes]_vars

\* Topology text that is not what lscpu prints: a count, a node id, a CPU
\* and the end of a span that are no numbers.
NodeLineStart == NumaWord \o <<" ", "n", "o", "d", "e">>

MalformedLscpuLines ==
  { CpusWord \o <<" ", " ", "x", "\n">>,
    NodesWord \o <<" ", "x", "\n">>,
    NodeLineStart \o <<"x", " ">> \o CpusWord \o <<" ", "0", "\n">>,
    NodeLineStart \o <<"0", " ">> \o CpusWord \o <<" ", "x", "\n">>,
    NodeLineStart \o <<"0", " ">> \o CpusWord \o <<" ", "0", "-", "x", "\n">> }

AnyLscpuLines ==
  MalformedLscpuLines
  \cup {CountLine, NodesCountLine, OnlineLine, NodeLine(0, << <<0, 1>> >>),
        <<"\n">>}

AnyLscpuFiles == UNION {[1..n -> AnyLscpuLines] : n \in 0..MaxLscpuLines}

\* check-nr-running.py from its first statement: with --lscpu-file
\* read_nodes runs on the file, without it numa_cpus stays {}; then the
\* first line of the trace is read.
InitTopology ==
  /\ tool = "check"
  /\ sampling = 1 /\ threshold = 1 /\ duration = 0
  /\ \/ pc = "lscpu" /\ lscpu_file \in AnyLscpuFiles
     \/ pc = "header" /\ lscpu_file = <<>>
  /\ numa_cpus = EmptyDict
  /\ PlainInput
  /\ NoSnapshots
  /\ InitLocals

NextTopology == ReadNodesLine \/ ReadNodesReturn \/ ReadHeader

SpecTopology == InitTopology /\ [][NextTopology]_vars

\* check-nr-running.py after read_nodes has returned a topology.
TopologyFiles ==
  { <<NodeLine(0, << <<0, 1>> >>)>>,
    <<NodeLine(0, << <<0>> >>), NodeLine(1, << <<1, 2>> >>)>> }

Topologies == {ReadNodes(f).numa : f \in TopologyFiles}

InitNuma ==
  /\ tool = "check"
  /\ sampling = 1 /\ threshold = 1 /\ duration = 0
  /\ lscpu_file = <<>>
  /\ numa_cpus \in Topologies
  /\ PlainInput
  /\ NoSnapshots
  /\ InitCommon

SpecNuma == InitNuma /\ [][Next]_vars

-----------------------------------------------------------------------------
\* The three scripts, each on any first line and any trace.

InitTools ==
  /\ tool \in ToolNames
  /\ IF tool = "check"
     THEN sampling = 1 /\ threshold = 1 /\ duration = 0
     ELSE sampling \in Samplings /\ threshold \in Thresholds
          /\ duration \in Durations
  /\ NoTopology
  /\ PlainInput
  /\ NoSnapshots
  /\ InitCommon

NextTools == Next \/ NextCompare \/ NextPlot

SpecTools == InitTools /\ [][NextTools]_vars

-----------------------------------------------------------------------------
\* The three scripts on an input named *.xz.

\* The statements that read the input are left, by their end, by
\* sys.exit() or by an exception: in compare-nr-running.py and
\* plot-nr-running.py these are the body of 'with lzma.open(...) as
\* decompressed', whose exit closes the handle; in check-nr-running.py they
\* are the rest of the script, which has no close() of data_file.
InputLeft ==
  /\ pc \in {"done", "fatal", "crash", "exit"}
  /\ pc' = "left"
  /\ data_file' = IF tool \in {"compare", "plot"} /\ data_file = "open"
                  THEN "closed" ELSE data_file
  /\ UNCHANGED <<tool, header, cpus_count, exit_code, warnings, eventVars,
                 checkVars, altVars, argVars, rowVars, lscpu_file, numa_cpus,
                 numa_util, input_index, psVars>>

\* lzma.open() has run before the first line is read.
InitXz ==
  /\ tool \in ToolNames
  /\ sampling = 1 /\ threshold = 1 /\ duration = 0
  /\ NoTopology
  /\ data_file = "open"
  /\ NoSnapshots
  /\ InitCommon

NextXz == NextTools \/ InputLeft

SpecXz == InitXz /\ [][NextXz]_vars

-----------------------------------------------------------------------------
\* Properties of check-nr-running.py.

\* A step of the loop that accepted an event line.
Accepted == events_count' = events_count + 1

Open(iv) == Len(iv) = 1

EndOf(iv) == iv[Len(iv)]

HasOpen(ivs) == \E i \in 1..Len(ivs) : Open(ivs[i])

\* C1: after finalize and the utilization walk, running + idle of every CPU
\* that had an event equals stop_time - start_time (stated here for the
\* traces whose timestamps are all positive).
C1_RunningPlusIdleIsWindow ==
  (pc = "done" /\ start_time > 0) =>
    \A c \in DOMAIN cpu_state :
      /\ c \in DOMAIN cpu_util
      /\ cpu_util[c][1] + cpu_util[c][2] = stop_time - start_time

\* C2: an accepted event adds exactly one arithmetic finding to its CPU's
\* count when the CPU has a recorded queue length and nr_running minus that
\* length differs from change, and adds nothing otherwise; a CPU's first
\* event never prints the arithmetic warning.
C2_ArithmeticFinding ==
  [][Accepted =>
       LET mismatch == /\ cpu' \in DOMAIN cpu_nr_running
                       /\ nr_running' - cpu_nr_running[cpu'] # change'
       IN /\ ("Arithmetic" \in warnings') <=> mismatch
          /\ GetCount(inconsistent_events', cpu')
               = GetCount(inconsistent_events, cpu') + (IF mismatch THEN 1 ELSE 0)
          /\ \A c \in CpuIds \ {cpu'} :
               GetCount(inconsistent_events', c) = GetCount(inconsistent_events, c)
          /\ cpu' \notin DOMAIN cpu_nr_running => "Arithmetic" \notin warnings'
    ]_vars

C2_Witness ==
  /\ pc = "loop"
  /\ events_count >= 2
  /\ "Arithmetic" \in warnings
  /\ GetCount(inconsistent_events, cpu) = 1

\* C3: after every accepted event, flagged or not, the CPU's recorded queue
\* length is the event's nr_running and its state is Running iff
\* nr_running > 0; and the states and interval lists of the two
\* reconstructions, which differ only in the change values read for CPUs of
\* known state, are the same.
C3_GroundTruth ==
  /\ events_count > 0 =>
       /\ cpu \in DOMAIN cpu_nr_running /\ cpu_nr_running[cpu] = nr_running
       /\ cpu \in DOMAIN cpu_state
       /\ cpu_state[cpu] = "Running" <=> nr_running > 0
  /\ alt_cpu_state = cpu_state
  /\ alt_cpu_run_intervals = cpu_run_intervals

C3_Witness ==
  /\ pc = "finalized"
  /\ events_count = MaxEvents
  /\ "Arithmetic" \in warnings
  /\ \E c \in DOMAIN cpu_run_intervals : Len(cpu_run_intervals[c]) >= 2
  /\ alt_cpu_run_intervals = cpu_run_intervals

\* C4 as claimed: an accepted event prints at most one of the three
\* consistency diagnostics.
C4_AtMostOneDiagnostic ==
  Cardinality(warnings \cap {"NegativePrior", "Arithmetic", "State"}) <= 1

\* C4: the state check runs only when the arithmetic check did not flag the
\* event, so an accepted event adds at most one to the finding counts and
\* never prints both the arithmetic and the state warning; the
\* negative-prior warning is printed whatever the arithmetic check found.
C4_AtMostOneFinding ==
  [][Accepted =>
       /\ SumValues(inconsistent_events') <= SumValues(inconsistent_events) + 1
       /\ ~({"Arithmetic", "State"} \subseteq warnings')
       /\ ("NegativePrior" \in warnings') <=> (nr_running' - change' < 0)
    ]_vars

C4_Witness ==
  /\ pc = "loop"
  /\ warnings = {"NegativePrior", "Arithmetic"}
  /\ SumValues(inconsistent_events) = 1

WellFormed(ivs) ==
  /\ \A i \in 1..Len(ivs) : Open(ivs[i]) => i = Len(ivs)
  /\ \A i \in 1..(Len(ivs) - 1) :
       /\ ivs[i][1] <= ivs[i + 1][1]
       /\ ivs[i][2] <= ivs[i + 1][1]

\* C6 as claimed: in the loop and after finalize every list is well formed
\* and a CPU has an open interval exactly when its state is Running.
C6_OpenIffRunningAlways ==
  pc \in {"loop", "finalized", "done"} =>
    \A c \in DOMAIN cpu_state :
      /\ WellFormed(GetList(cpu_run_intervals, c))
      /\ HasOpen(GetList(cpu_run_intervals, c)) <=> cpu_state[c] = "Running"

\* C6: in the loop and after finalize every list is well formed; in the
\* loop a CPU has an open interval exactly when its state is Running, and
\* after finalize no interval is open.
C6_IntervalsWellFormed ==
  /\ \A c \in DOMAIN cpu_run_intervals : WellFormed(cpu_run_intervals[c])
  /\ DOMAIN cpu_run_intervals \subseteq DOMAIN cpu_state
  /\ pc = "loop" =>
       \A c \in DOMAIN cpu_state :
         HasOpen(GetList(cpu_run_intervals, c)) <=> cpu_state[c] = "Running"
  /\ pc \in {"finalized", "done"} =>
       \A c \in DOMAIN cpu_state : ~HasOpen(GetList(cpu_run_intervals, c))

C6_Witness ==
  /\ pc = "loop"
  /\ \E c \in DOMAIN cpu_run_intervals :
       /\ Len(cpu_run_intervals[c]) = 3
       /\ Open(cpu_run_intervals[c][3])
       /\ cpu_run_intervals[c][2][2] < cpu_run_intervals[c][3][1]

\* C7: finalize closes the open interval of every Running CPU at stop_time
\* keeping its start, appends (stop_time, stop_time) to the list of every
\* Idle CPU, and leaves no interval open; stop_time is the last timestamp.
C7_Finalize ==
  [][(pc = "loop" /\ pc' = "finalized") =>
       /\ stop_time' = point_time
       /\ DOMAIN cpu_run_intervals' = DOMAIN cpu_state
       /\ \A c \in DOMAIN cpu_state :
            LET old == GetList(cpu_run_intervals, c)
                new == cpu_run_intervals'[c]
            IN /\ ~HasOpen(new)
               /\ cpu_state[c] = "Running" =>
                    /\ Len(new) = Len(old)
                    /\ \A i \in 1..(Len(old) - 1) : new[i] = old[i]
                    /\ new[Len(new)] = <<old[Len(old)][1], stop_time'>>
               /\ cpu_state[c] = "Idle" =>
                    new = Append(old, <<stop_time', stop_time'>>)
    ]_vars

C7_Witness ==
  /\ pc = "finalized"
  /\ \E c, d \in DOMAIN cpu_state :
       /\ cpu_state[c] = "Running" /\ cpu_state[d] = "Idle"
       /\ EndOf(cpu_run_intervals[c]) = <<start_time, stop_time>>
       /\ EndOf(cpu_run_intervals[d]) = <<stop_time, stop_time>>
       /\ Len(cpu_run_intervals[d]) = 2
       /\ start_time < stop_time

\* C8 as claimed: on a CPU's first event an implied prior queue length > 0
\* gives an interval from start_time (open if nr_running > 0, closed at
\* the event's timestamp if not); an implied Idle prior state gives nothing
\* at start_time, only the interval the event itself opens.
C8_FirstEventAsClaimed ==
  [][(Accepted /\ cpu' \notin DOMAIN cpu_state) =>
       LET prior == nr_running' - change'
           new == GetList(cpu_run_intervals', cpu')
       IN /\ (prior > 0 /\ nr_running' > 0) => new = << <<start_time'>> >>
          /\ (prior > 0 /\ nr_running' = 0) =>
               new = << <<start_time', point_time'>> >>
          /\ (prior <= 0 /\ nr_running' > 0) => new = << <<point_time'>> >>
          /\ (prior <= 0 /\ nr_running' = 0) => new = <<>>
    ]_vars

\* C8: as claimed for an implied prior queue length > 0; for an implied Idle
\* prior state and nr_running > 0 the list receives the zero-length interval
\* (start_time, start_time) and then the interval the event opens at its
\* timestamp; for an implied Idle prior state and nr_running = 0 nothing.
C8_FirstEvent ==
  [][(Accepted /\ cpu' \notin DOMAIN cpu_state) =>
       LET prior == nr_running' - change'
           new == GetList(cpu_run_intervals', cpu')
       IN /\ (prior > 0 /\ nr_running' > 0) => new = << <<start_time'>> >>
          /\ (prior > 0 /\ nr_running' = 0) =>
               new = << <<start_time', point_time'>> >>
          /\ (prior <= 0 /\ nr_running' > 0) =>
               new = << <<start_time', start_time'>>, <<point_time'>> >>
          /\ (prior <= 0 /\ nr_running' = 0) =>
               /\ new = <<>>
               /\ cpu' \notin DOMAIN cpu_run_intervals'
    ]_vars

C8_Witness ==
  /\ pc = "loop"
  /\ events_count = 2
  /\ Cardinality(DOMAIN cpu_nr_running) = 2
  /\ nr_running > 0 /\ nr_running - change <= 0
  /\ start_time < point_time
  /\ cpu_run_intervals[cpu] = << <<start_time, start_time>>, <<point_time>> >>

-----------------------------------------------------------------------------
\* Properties of the three scripts.

\* C9: in each script a first line that is not cpus=<unsigned integer> ends
\* the run with the error message and exit status 1; at the least the run
\* does not go on to the lines after it.
C9_MalformedHeaderStopsRun ==
  [][(pc = "header" /\ HeaderFindall(header') = <<>>) => pc' # "loop"]_vars

\* C10: an accepted event whose cpu is >= the cpus= count is counted as a
\* finding and processed like any other event, and the loop goes on.
C10_OutOfRangeCountedAndProcessed ==
  [][(Accepted /\ cpu' >= cpus_count) =>
       /\ pc' = "loop"
       /\ tool = "check" =>
            SumValues(inconsistent_events') = SumValues(inconsistent_events) + 1
    ]_vars

-----------------------------------------------------------------------------
\* Properties of the loop over the lines.

\* A step of the loop on a line the event pattern does not match.
Unmatched == pc = "loop" /\ pc' = "loop" /\ ~Accepted

\* C11: in check-nr-running.py, once an event was accepted, the loop is left
\* only by the end of the input and then for the finalized intervals, with
\* exit status 0: no line, finding or warning ends the run; and for a trace
\* of positive timestamps the report that follows is completed.
C11_LoopRunsToFinalize ==
  [][/\ (pc = "loop" /\ pc' # "loop" /\ events_count' > 0) =>
          /\ pc' = "finalized"
          /\ events_count' = events_count
          /\ exit_code' = 0
     /\ (pc = "loop" /\ (Accepted \/ warnings' # warnings)) =>
          pc' = "loop" /\ exit_code' = 0
     /\ (pc = "finalized" /\ start_time > 0) => pc' = "done" /\ exit_code' = 0
    ]_vars

C11_Witness ==
  /\ pc = "done"
  /\ exit_code = 0
  /\ events_count = MaxEvents
  /\ start_time > 0
  /\ warnings = {"Malformed"}
  /\ SumValues(inconsistent_events) >= 2

\* C12 as claimed: a line with the marker that the pattern does not match
\* is counted, that is, leaves a record in the state the final report is
\* made from.
C12_MalformedCounted ==
  [][(Unmatched /\ "Malformed" \in warnings') =>
       <<checkVars, rowVars>>' # <<checkVars, rowVars>>
    ]_vars

\* C12: in each script a line the pattern does not match prints a warning
\* when it holds the marker and nothing when it does not, and changes
\* nothing else: no count, no event field, no per-CPU state, queue length,
\* interval, row or start_time.
C12_UnmatchedOnlyWarns ==
  [][Unmatched =>
       /\ warnings' \in {{}, {"Malformed"}}
       /\ UNCHANGED <<eventVars, checkVars, rowVars, cpus_count, exit_code>>
    ]_vars

C12_Witness ==
  /\ tool = "compare"
  /\ pc = "done"
  /\ events_count = MaxRowEvents
  /\ warnings = {"Malformed"}
  /\ Len(time_axis) >= 1

\* C19: after finalize stop_time >= start_time and every interval of every
\* CPU is closed with start <= end.
C19_Monotone ==
  (pc \in {"finalized", "done"} \/ (pc = "crash" /\ events_count > 0)) =>
    /\ stop_time >= start_time
    /\ \A c \in DOMAIN cpu_run_intervals :
         \A i \in 1..Len(cpu_run_intervals[c]) :
           /\ Len(cpu_run_intervals[c][i]) = 2
           /\ cpu_run_intervals[c][i][1] <= cpu_run_intervals[c][i][2]

C19_Witness ==
  /\ pc = "finalized"
  /\ start_time < stop_time
  /\ \E c \in DOMAIN cpu_run_intervals :
       /\ Len(cpu_run_intervals[c]) >= 2
       /\ cpu_run_intervals[c][1][1] = start_time
       /\ cpu_run_intervals[c][1][2] > start_time

-----------------------------------------------------------------------------
\* Properties of the utilization report and of read_nodes.

\* The (running, idle) pair of a CPU: the result of the walk over its
\* intervals, or idle from start_time to stop_time without an event.
PairOf(c) ==
  IF c \in DOMAIN cpu_state
  THEN <<Walk(cpu_run_intervals[c]).running, Walk(cpu_run_intervals[c]).idle>>
  ELSE <<0, stop_time - start_time>>

\* The sum of component k of the pairs of the CPUs in the list.
SumPairs(members, k) ==
  SumOver([i \in 1..Len(members) |-> PairOf(members[i])[k]], 1..Len(members))

\* C13: with a topology, the totals of every node are the sums of the
\* (running, idle) pairs of the node's CPUs, a CPU without an accepted event
\* counting as running 0 and idle stop_time - start_time.
C13_NodeTotals ==
  (pc = "done" /\ DOMAIN numa_cpus # {}) =>
    /\ DOMAIN numa_util = DOMAIN numa_cpus
    /\ \A node \in DOMAIN numa_cpus :
         numa_util[node] = <<SumPairs(numa_cpus[node], 1),
                             SumPairs(numa_cpus[node], 2)>>

C13_Witness ==
  /\ pc = "done"
  /\ stop_time - start_time = MaxTime
  /\ DOMAIN numa_cpus = {0, 1}
  /\ DOMAIN cpu_state = {1}
  /\ numa_util[0] = <<0, MaxTime>>
  /\ numa_util[1][1] > 0 /\ numa_util[1][2] > MaxTime

\* C14: the per-CPU utilization of the report has, for every CPU id below
\* the cpus= count that had no accepted event, the entry running 0 and idle
\* stop_time - start_time.
C14_AbsentCpusReported ==
  pc = "done" =>
    \A c \in 0..(cpus_count - 1) :
      c \notin DOMAIN cpu_state =>
        c \in DOMAIN cpu_util /\ cpu_util[c] = <<0, stop_time - start_time>>

\* The CPUs a list of items names: a alone, or every CPU from a to b.
RECURSIVE Expand(_)
Expand(r) ==
  IF r = <<>> THEN <<>>
  ELSE LET it == r[1]
           cs == IF Len(it) = 1 THEN <<it[1]>>
                 ELSE [i \in 1..(it[2] - it[1] + 1) |-> it[1] + (i - 1)]
       IN cs \o Expand(Tail(r))

\* C20: read_nodes gives node k exactly the CPUs a 'NUMA node<k> CPU(s):'
\* line lists, in their order and behind those the node already has, every
\* single CPU and every CPU of a span with both ends; the 'CPU(s):' and
\* 'NUMA node(s):' lines, and a line that is none of the three, add nothing;
\* the read_nodes of plot-mpstat.py does the same on every line.
C20_ReadNodes ==
  [][(pc = "lscpu" /\ lscpu_file # <<>>) =>
       LET line == Head(lscpu_file)
       IN /\ NodesLineByPrefix(numa_cpus, line).numa = numa_cpus'
          /\ NodesLineByPrefix(numa_cpus, line).ok <=> pc' = "lscpu"
          /\ line \in {CountLine, NodesCountLine, OnlineLine} =>
               numa_cpus' = numa_cpus /\ pc' = "lscpu"
          /\ \A k \in NodeIds, r \in CpuLists \ {<<>>} :
               line = NodeLine(k, r) =>
                 /\ pc' = "lscpu"
                 /\ numa_cpus' = IF Expand(r) = <<>> THEN numa_cpus
                                 ELSE Put(numa_cpus, k,
                                          GetList(numa_cpus, k) \o Expand(r))
    ]_vars

C20_Witness ==
  /\ pc = "header"
  /\ DOMAIN numa_cpus = {0, 1}
  /\ numa_cpus[0] = <<0, 1, 2>>
  /\ numa_cpus[1] = <<2, 0, 1>>

-----------------------------------------------------------------------------
\* Properties of the imbalances of compare-nr-running.py and
\* plot-nr-running.py.

\* With --sampling 1 row i + 1 of map_values is the row after event i and
\* time_axis[i] is the time of event i.
SpreadAfter(i) == RowMax(map_values[i + 1]) - RowMin(map_values[i + 1])

\* The runs of events i..j-1 with a spread >= threshold that are not part of
\* a longer one and that the event j ends with a spread below it.
ClosedRuns ==
  { w \in (1..Len(time_axis)) \X (1..Len(time_axis)) :
      /\ w[1] < w[2]
      /\ \A k \in w[1]..(w[2] - 1) : SpreadAfter(k) >= threshold
      /\ w[1] > 1 => SpreadAfter(w[1] - 1) < threshold
      /\ SpreadAfter(w[2]) < threshold
      /\ time_axis[w[2]] - time_axis[w[1]] >= duration }

\* imbalances without the one appended at the end of the input.
ReportedBeforeEnd ==
  IF /\ last_imbalance_start # 0
     /\ time_axis[Len(time_axis)] - last_imbalance_start >= duration
  THEN SubSeq(imbalances, 1, Len(imbalances) - 1)
  ELSE imbalances

\* C15: the imbalances reported before the end of the input are the maximal
\* runs of events with a spread (taken after the event's update) >= threshold
\* that last at least the duration, each from the time of its first event to
\* the time of the event that ends it (stated for --sampling 1, positive
\* times and traces in which every declared CPU has an event).
C15_WindowsAreMaximalRuns ==
  ( /\ tool \in {"compare", "plot"}
    /\ pc = "done"
    /\ sampling = 1
    /\ Len(time_axis) > 0
    /\ time_axis[1] > 0
    /\ \A c \in DOMAIN last_row : last_row[c] # NoData ) =>
    /\ Len(ReportedBeforeEnd) = Cardinality(ClosedRuns)
    /\ {ReportedBeforeEnd[k] : k \in 1..Len(ReportedBeforeEnd)}
         = {<<time_axis[w[1]], time_axis[w[2]]>> : w \in ClosedRuns}

\* C16: at the end of the input the imbalance still open is reported when
\* the time of the last accepted event minus its start is >= duration, with
\* that time as its end, and dropped when it is not.
C16_OpenWindowAtEnd ==
  [][(tool \in {"compare", "plot"} /\ pc = "loop" /\ pc' = "done") =>
       LET before ==
             IF tool = "compare" THEN imbalances
             ELSE SecondRun(1, map_values, time_axis, threshold, duration,
                            [ start |-> 0, found |-> <<>>,
                              differences |-> <<>>, sums |-> <<>> ]).found
           open == last_imbalance_start'
       IN imbalances' =
            IF open # 0 /\ point_time - open >= duration
            THEN Append(before, <<open, point_time>>)
            ELSE before
    ]_vars

\* max - min over the CPUs in obs.
ObservedSpread(row, obs) ==
  IF obs = {} THEN 0
  ELSE RowMax([c \in obs |-> row[c]]) - RowMin([c \in obs |-> row[c]])

\* C17: in plot-nr-running.py the spread of every sample is max - min over
\* the CPUs that had an event in the trace.
C17_SpreadOverObserved ==
  (tool = "plot" /\ pc = "done") =>
    \A i \in 1..Len(differences) :
      differences[i]
        = ObservedSpread(map_values[i],
                         {c \in DOMAIN last_row : last_row[c] # NoData})

-----------------------------------------------------------------------------
\* Properties of the two calls of compare-nr-running.py.

\* What process_report reads and writes, apart from its options.
CallState ==
  <<cpus_count, eventVars, events_count, rowVars>>

\* C18: the second call of process_report starts from the state the first
\* call started from, with the same options, and after the first line of its
\* trace it holds nothing but that line's CPU count: since every step is a
\* function of the state and the line read, what it returns depends on its
\* own trace alone.
C18_SecondCallStartsAfresh ==
  /\ [][(input_index' # input_index) =>
          /\ input_index = 0 /\ input_index' = 1
          /\ pc' = "header"
          /\ CallState' = <<0, <<0, 0, 0, 0, 0>>, 0,
                            <<<<>>, <<>>, <<>>, <<>>, <<>>, <<>>, 0, 0>>>>
          /\ UNCHANGED argVars
       ]_vars
  /\ []((pc = "loop" /\ events_count = 0) =>
          /\ last_row = Full(cpus_count, 0)
          /\ map_values = <<Full(cpus_count, 0)>>
          /\ time_axis = <<>> /\ differences = <<>> /\ sums = <<>>
          /\ imbalances = <<>>
          /\ last_imbalance_start = 0 /\ counter = 0
          /\ point_time = 0 /\ start_time = UnsetStartTime)

C18_Witness ==
  /\ input_index = 1
  /\ pc = "done"
  /\ events_count = MaxRowEvents
  /\ sampling = 1
  /\ Len(time_axis) = MaxRowEvents
  /\ Len(imbalances) = 1

-----------------------------------------------------------------------------
\* Properties of the event loop of check-nr-running.py.

\* C22: start_time is the timestamp of the first accepted event and no later
\* step changes it; stop_time is the timestamp of the last accepted event,
\* whether or not that event changed the state of its CPU, and stays so.
C22_StartAndStopTime ==
  [][/\ Accepted =>
          start_time' = IF events_count = 0 THEN point_time' ELSE start_time
     /\ ~Accepted => start_time' = start_time /\ point_time' = point_time
     /\ (pc = "loop" /\ pc' = "finalized") => stop_time' = point_time
     /\ pc \in {"finalized", "done"} => stop_time' = stop_time
    ]_vars

C22_Witness ==
  /\ pc = "finalized"
  /\ events_count = MaxEvents
  /\ DOMAIN cpu_state = {cpu}
  /\ cpu_run_intervals[cpu] = << <<start_time, stop_time>> >>
  /\ start_time = 1
  /\ stop_time = MaxTime

\* C23: on an accepted event of a CPU of known state, Idle -> Running
\* appends one open interval starting at the event's timestamp and
\* Running -> Idle puts the timestamp as the end of the CPU's last interval,
\* keeping its start; the other intervals of the CPU and the lists of the
\* other CPUs stay as they are.
C23_KnownTransitionEffect ==
  [][(Accepted /\ cpu' \in DOMAIN cpu_state) =>
       LET old == GetList(cpu_run_intervals, cpu')
           new == GetList(cpu_run_intervals', cpu')
       IN /\ (cpu_state[cpu'] = "Idle" /\ nr_running' > 0) =>
               new = Append(old, <<point_time'>>)
          /\ (cpu_state[cpu'] = "Running" /\ nr_running' = 0) =>
               /\ Len(old) > 0
               /\ Len(new) = Len(old)
               /\ \A i \in 1..(Len(old) - 1) : new[i] = old[i]
               /\ new[Len(new)] = <<old[Len(old)][1], point_time'>>
          /\ \A c \in (DOMAIN cpu_run_intervals \cup DOMAIN cpu_run_intervals')
                        \ {cpu'} :
               /\ c \in DOMAIN cpu_run_intervals
               /\ c \in DOMAIN cpu_run_intervals'
               /\ cpu_run_intervals'[c] = cpu_run_intervals[c]
    ]_vars

C23_Witness ==
  /\ pc = "loop"
  /\ events_count = MaxEvents
  /\ DOMAIN cpu_state = {cpu}
  /\ cpu_run_intervals[cpu] = << <<0, 1>>, <<MaxTime>> >>

\* C24: an accepted event of a CPU of known state whose nr_running gives the
\* tracked state changes no interval list and no tracked state; and a CPU
\* never has more intervals than two plus the events that found it Idle and
\* made it Running (its first event, judged by the state it implies,
\* included).
C24_SameStateNoBookkeeping ==
  /\ [][(Accepted /\ cpu' \in DOMAIN cpu_state
           /\ StateOf(nr_running') = cpu_state[cpu']) =>
          /\ cpu_run_intervals' = cpu_run_intervals
          /\ cpu_state' = cpu_state
       ]_vars
  /\ [](\A c \in DOMAIN cpu_run_intervals :
          Len(cpu_run_intervals[c]) <= GetCount(idle_to_running, c) + 2)

C24_Witness ==
  /\ pc = "finalized"
  /\ events_count = MaxEvents
  /\ DOMAIN cpu_state = {cpu}
  /\ cpu_state[cpu] = "Idle"
  /\ nr_running = 0 /\ change = 0
  /\ idle_to_running = Put(EmptyDict, cpu, 1)
  /\ Len(cpu_run_intervals[cpu]) = 3

-----------------------------------------------------------------------------
\* Properties of the utilization walk.

RECURSIVE RunningSum(_)
RunningSum(ivs) ==
  IF ivs = <<>> THEN 0 ELSE (ivs[1][2] - ivs[1][1]) + RunningSum(Tail(ivs))

RECURSIVE GapSum(_)
GapSum(ivs) ==
  IF Len(ivs) < 2 THEN 0 ELSE (ivs[2][1] - ivs[1][2]) + GapSum(Tail(ivs))

\* C25: the walk over a finalized list gives running = the sum of end - start
\* over its intervals and idle = the sum of the gaps between each interval
\* and the next, and the report holds these two numbers for the CPU.
C25_WalkSums ==
  /\ pc = "finalized" =>
       \A c \in DOMAIN cpu_run_intervals :
         /\ Walk(cpu_run_intervals[c]).running = RunningSum(cpu_run_intervals[c])
         /\ Walk(cpu_run_intervals[c]).idle = GapSum(cpu_run_intervals[c])
  /\ pc = "done" =>
       \A c \in DOMAIN cpu_run_intervals :
         cpu_util[c] = <<RunningSum(cpu_run_intervals[c]),
                         GapSum(cpu_run_intervals[c])>>

\* C26: after finalize the walk takes the 'end time of runtime interval is
\* undefined' branch for no interval of any CPU.
C26_NoUndefinedEnd ==
  pc = "finalized" =>
    \A c \in DOMAIN cpu_run_intervals : ~Walk(cpu_run_intervals[c]).undefined

-----------------------------------------------------------------------------
\* Properties of the consistency checks.

\* C28: a CPU has a tracked state exactly when it has a recorded queue
\* length, and the state is Running iff that length is > 0; so an accepted
\* event that passes the arithmetic check finds the tracked state of its CPU
\* in agreement with nr_running - change, and the state warning is never
\* printed.
C28_NoStateMismatch ==
  /\ [](/\ DOMAIN cpu_state = DOMAIN cpu_nr_running
        /\ \A c \in DOMAIN cpu_state :
             cpu_state[c] = "Running" <=> cpu_nr_running[c] > 0
        /\ "State" \notin warnings)
  /\ [][(Accepted /\ cpu' \in DOMAIN cpu_state
           /\ nr_running' - cpu_nr_running[cpu'] = change') =>
          /\ cpu_state[cpu'] = "Running" <=> nr_running' - change' > 0
          /\ inconsistent_events' = inconsistent_events
       ]_vars

C28_Witness ==
  /\ pc = "loop"
  /\ events_count = MaxEvents
  /\ DOMAIN cpu_state = {cpu}
  /\ inconsistent_events = EmptyDict
  /\ warnings = {}
  /\ change = 0 - MaxNr
  /\ cpu_run_intervals[cpu] = << <<0, 0>>, <<1, MaxTime>> >>

-----------------------------------------------------------------------------
\* Properties of the time axis of compare-nr-running.py.

\* C30: the offset start_time is fixed by the first accepted event, so that
\* from the second accepted event on the relative timestamp point_time is
\* the raw timestamp minus the same offset: it does not decrease, and it
\* grows by what the raw timestamp (point_time + start_time) grows by.
C30_ConstantOffset ==
  [][(tool = "compare" /\ Accepted /\ events_count > 0) =>
       /\ start_time' = start_time
       /\ point_time' >= point_time
       /\ point_time' - point_time
            = (point_time' + start_time') - (point_time + start_time)
    ]_vars

-----------------------------------------------------------------------------
\* Properties of --sampling.

\* C29: the imbalances a call returns are those the call with --sampling 1
\* returns for the same lines, threshold and duration.
C29_SamplingIndependent ==
  (pc = "done" /\ unsampled # <<>>) => imbalances = UnsampledImbalances

-----------------------------------------------------------------------------
\* Properties of the topology input.

\* C21: whatever the text of the topology file, read_nodes returns and the
\* script goes on to the trace with exit status 0; no line of the file ends
\* the run.
C21_TopologyNeverFatal ==
  [][pc = "lscpu" => (pc' \in {"lscpu", "header"} /\ exit_code' = 0)]_vars

-----------------------------------------------------------------------------
\* Properties of the compressed input.

\* C27: in each script, when the statements that read an .xz input have been
\* left, at their end or by the fatal error of the first line, the handle of
\* lzma.open() is closed.
C27_HandleClosed ==
  (pc = "left" /\ data_file # "plain") => data_file = "closed"

-----------------------------------------------------------------------------
\* Properties of the rows of plot-nr-running.py.

\* The events of CPU c among the first k matched lines.
EventsOf(c, k) == {i \in 1..k : i <= Len(trace) /\ trace[i].cpu = c}

Latest(is) == CHOOSE i \in is : \A j \in is : j <= i

Earliest(is) == CHOOSE i \in is : \A j \in is : i <= j

\* What slot c of the j-th stored row is to hold: the row of before the loop
\* is the first, and a row is stored at every sampling-th matched line.
SlotOf(j, c) ==
  LET all == EventsOf(c, Len(trace))
      upto == EventsOf(c, (j - 1) * sampling)
  IN IF all = {} THEN NoData
     ELSE IF upto = {}
          THEN trace[Earliest(all)].nr_running - trace[Earliest(all)].change
          ELSE trace[Latest(upto)].nr_running

\* C31: in plot-nr-running.py every stored row holds, in the slot of a CPU,
\* nr_running - change of the CPU's first event when the row was stored
\* before that event, and the nr_running of the CPU's latest event up to the
\* row when it was stored at or after one.
C31_RowsHoldQueueLengths ==
  (tool = "plot" /\ pc \in {"loop", "done", "exit"}) =>
    /\ Len(map_values) = 1 + (Len(trace) \div sampling)
    /\ \A j \in 1..Len(map_values) :
         \A c \in DOMAIN last_row : map_values[j][c] = SlotOf(j, c)

C31_Witness ==
  /\ pc = "done"
  /\ sampling = MaxSampling
  /\ Len(trace) = MaxRowEvents
  /\ Len(map_values) = 2
  /\ trace[1].cpu = 0 /\ trace[2].cpu = 1
  /\ map_values[1][0] = trace[1].nr_running - trace[1].change
  /\ map_values[1][0] # trace[1].nr_running
  /\ map_values[1][1] = trace[2].nr_running - trace[2].change
  /\ map_values[1][1] # trace[2].nr_running
  /\ map_values[2][0] = trace[1].nr_running
  /\ map_values[2][1] = trace[2].nr_running
  /\ NoData \notin {map_values[1][0], map_values[1][1]}

-----------------------------------------------------------------------------
\* Properties of a trace without events.

\* C32: in each script, when the input ends after a cpus= line and no line
\* the event pattern matches, the loop is left for the report or for the
\* 'no events' exit, with exit status 0.
C32_EmptyTraceHandled ==
  [][(pc = "loop" /\ events_count' = 0 /\ pc' # "loop") =>
       /\ pc' \in {"finalized", "done", "exit"}
       /\ exit_code' = 0
    ]_vars

-----------------------------------------------------------------------------
\* plot-ps.py: process_report on the output of repeated ps calls. A
\* snapshot is a time record, the table header and one row per thread.

MaxLwp == 2
MaxSnapshots == 2

\* The mark of a CPU that holds several tasks.
ManyTasks == 1000

PidWord == <<"P", "I", "D">>

HeaderRow == <<PidWord, <<"L", "W", "P">>, <<"P", "S", "R">>>>

\* The time record of the k-th snapshot, one token; the clock is in ticks.
TimeRecord(k) == <<<<DigitChar(k)>>>>

\* datetime.strptime(data[0], ...).timestamp()
Timestamp(s) == DecimalVal(s)

\* 'PID LWP PSR' of one thread of the observed process.
ThreadRow(lwp, psr) == <<<<"1">>, <<DigitChar(lwp)>>, <<DigitChar(psr)>>>>

\* The rows of the threads in lwps in the order of their ids, placed[l]
\* the CPU of thread l.
RECURSIVE ThreadRows(_, _)
ThreadRows(lwps, placed) ==
  IF lwps = {} THEN <<>>
  ELSE LET l == CHOOSE x \in lwps : \A y \in lwps : x <= y
       IN <<ThreadRow(l, placed[l])>> \o ThreadRows(lwps \ {l}, placed)

SnapshotRows ==
  UNION {{ThreadRows(lwps, placed) : placed \in [lwps -> 0..MaxCpu]} :
         lwps \in SUBSET (1..MaxLwp)}

Snapshot(k, rows) == <<TimeRecord(k), HeaderRow>> \o rows

RECURSIVE PsFilesOf(_)
PsFilesOf(n) ==
  IF n = 0 THEN {<<>>}
  ELSE {f \o Snapshot(n, rows) : f \in PsFilesOf(n - 1), rows \in SnapshotRows}

PsFiles == UNION {PsFilesOf(n) : n \in 1..MaxSnapshots}

\* max(np.concatenate(list(numa_cpus.values()))) + 1
PsCpusCount(numa) ==
  LET all == UNION {{numa[k][i] : i \in 1..Len(numa[k])} : k \in DOMAIN numa}
  IN (CHOOSE c \in all : \A d \in all : d <= c) + 1

\* process_report up to its loop: the size of a row and the first row.
PsStart ==
  /\ tool = "ps"
  /\ pc = "header"
  /\ cpus_count' = PsCpusCount(numa_cpus)
  /\ ps_row' = Full(PsCpusCount(numa_cpus), 0)
  /\ threads' = EmptyDict
  /\ first_record' = TRUE
  /\ pc' = "loop"
  /\ UNCHANGED <<tool, header, exit_code, warnings, eventVars, checkVars,
                 altVars, argVars, rowVars, lscpu_file, numa_cpus, numa_util,
                 input_index, data_file, ps_file, ps_pos, time_offset>>

\* One pass of 'for line in input_file'.
PsLine ==
  /\ tool = "ps"
  /\ pc = "loop"
  /\ ps_pos < Len(ps_file)
  /\ ps_pos' = ps_pos + 1
  /\ LET data == ps_file[ps_pos + 1]
     IN IF Len(data) = 1
        THEN LET curr_time == Timestamp(data[1])
                 offset == IF first_record /\ time_offset = 0
                           THEN curr_time ELSE time_offset
             IN /\ time_offset' = offset
                /\ first_record' = (first_record /\ time_offset = 0)
                /\ map_values' = IF first_record /\ time_offset = 0
                                 THEN map_values
                                 ELSE Append(map_values, ps_row)
                /\ time_axis' = Append(time_axis, curr_time - offset)
                /\ ps_row' = Full(cpus_count, 0)
                /\ UNCHANGED <<threads, pc, exit_code>>
        ELSE IF Len(data) = 0
        THEN /\ pc' = "crash"
             /\ exit_code' = 1
             /\ UNCHANGED <<threads, first_record, time_offset, ps_row,
                            map_values, time_axis>>
        ELSE IF data[1] = PidWord
        THEN UNCHANGED <<threads, first_record, time_offset, ps_row,
                         map_values, time_axis, pc, exit_code>>
        ELSE IF Len(data) < 3 \/ ~AllDigits(data[2]) \/ ~AllDigits(data[3])
        THEN /\ pc' = "crash"
             /\ exit_code' = 1
             /\ UNCHANGED <<threads, first_record, time_offset, ps_row,
                            map_values, time_axis>>
        ELSE LET lwp == DecimalVal(data[2])
                 psr == DecimalVal(data[3])
                 known == IF first_record
                          THEN Put(threads, lwp, Cardinality(DOMAIN threads) + 1)
                          ELSE threads
             IN /\ threads' = known
                /\ IF psr >= cpus_count \/ (ps_row[psr] = 0 /\ lwp \notin DOMAIN known)
                   THEN /\ pc' = "crash"
                        /\ exit_code' = 1
                        /\ UNCHANGED ps_row
                   ELSE /\ ps_row' = [ps_row EXCEPT ![psr] =
                                        IF ps_row[psr] = 0 THEN known[lwp]
                                        ELSE ManyTasks]
                        /\ UNCHANGED <<pc, exit_code>>
                /\ UNCHANGED <<first_record, time_offset, map_values, time_axis>>
  /\ UNCHANGED <<tool, header, cpus_count, warnings, eventVars, checkVars,
                 altVars, argVars, last_row, differences, sums, imbalances,
                 last_imbalance_start, counter, lscpu_file, numa_cpus,
                 numa_util, input_index, data_file, ps_file>>

\* The end of the input: the last row is stored and the map is drawn.
PsReturn ==
  /\ tool = "ps"
  /\ pc = "loop"
  /\ ps_pos = Len(ps_file)
  /\ map_values' = Append(map_values, ps_row)
  /\ pc' = "done"
  /\ UNCHANGED <<tool, header, cpus_count, exit_code, warnings, eventVars,
                 checkVars, altVars, argVars, last_row, time_axis, differences,
                 sums, imbalances, last_imbalance_start, counter, mainVars>>

\* --time-offset is absent (0) or a boot time; --lscpu-file has been read.
InitPs ==
  /\ tool = "ps"
  /\ sampling = 1 /\ threshold = 1 /\ duration = 0
  /\ lscpu_file = <<>>
  /\ numa_cpus \in Topologies
  /\ PlainInput
  /\ ps_file \in PsFiles
  /\ ps_pos = 0
  /\ threads = EmptyDict
  /\ first_record = TRUE
  /\ time_offset \in 0..1
  /\ ps_row = <<>>
  /\ InitCommon

NextPs == PsStart \/ PsLine \/ PsReturn

SpecPs == InitPs /\ [][NextPs]_vars

\* The threads listed in the first snapshot of the input.
FirstSnapshot ==
  LET later == {i \in 2..Len(ps_file) : Len(ps_file[i]) = 1}
      last == IF later = {} THEN Len(ps_file)
              ELSE (CHOOSE i \in later : \A j \in later : i <= j) - 1
  IN {DecimalVal(ps_file[i][2]) : i \in 3..last}

\* C33: process_report never stops on a failed lookup of a thread, the
\* ids in threads are distinct and lie in 1..N, and at the end of the input
\* every thread of the first snapshot has one.
C33_ThreadsResolved ==
  tool = "ps" =>
    /\ pc # "crash"
    /\ \A l \in DOMAIN threads : threads[l] \in 1..Cardinality(DOMAIN threads)
    /\ \A l, m \in DOMAIN threads : threads[l] = threads[m] => l = m
    /\ pc = "done" => FirstSnapshot \subseteq DOMAIN threads

====
